---- MODULE Spec2Model ----
(***************************************************************************)
(* pwnmap backend: ingestion of capture pairs (routers/upload.py,          *)
(* services/ingest.py), the networks table (db/database.py, db/queries.py) *)
(* and the wpa-sec correlation sync (services/wpasec_sync.py).             *)
(*                                                                         *)
(* A Python str is a sequence of one-character strings.  Python None and   *)
(* SQL NULL are None where a str may stand (a sequence no text of the      *)
(* program equals) and Absent where a number or a dict may stand: TLC      *)
(* compares sequences with sequences and records with records only.        *)
(***************************************************************************)
EXTENDS Integers, Sequences, FiniteSets, TLC

VARIABLES
    networks,   \* the rows of table networks, in id order (row i has id i)
    resp,       \* what the last request handler answered
    ouiLoaded,  \* OUILookup._loaded
    ouiMap,     \* OUILookup._map_by_len
    probe       \* argument and result of the last direct call of a pure function

vars == <<networks, resp, ouiLoaded, ouiMap, probe>>

None == <<"<None>">>
Absent == [none |-> TRUE]

\* Python truthiness of an Optional[str]
Truthy(x) == x # None /\ x # <<>>

(***************************************************************************)
(* Characters and str methods                                              *)
(***************************************************************************)
Digits == {"0", "1", "2", "3", "4", "5", "6", "7", "8", "9"}
HexUpperChars == Digits \cup {"A", "B", "C", "D", "E", "F"}
HexLowerChars == Digits \cup {"a", "b", "c", "d", "e", "f"}
HexChars == HexUpperChars \cup HexLowerChars

\* the ASCII letters: the upper-case form of each lower-case letter, and back
UpperOf ==
    [a |-> "A", b |-> "B", c |-> "C", d |-> "D", e |-> "E", f |-> "F", g |-> "G",
     h |-> "H", i |-> "I", j |-> "J", k |-> "K", l |-> "L", m |-> "M", n |-> "N",
     o |-> "O", p |-> "P", q |-> "Q", r |-> "R", s |-> "S", t |-> "T", u |-> "U",
     v |-> "V", w |-> "W", x |-> "X", y |-> "Y", z |-> "Z"]

LowerOf ==
    [A |-> "a", B |-> "b", C |-> "c", D |-> "d", E |-> "e", F |-> "f", G |-> "g",
     H |-> "h", I |-> "i", J |-> "j", K |-> "k", L |-> "l", M |-> "m", N |-> "n",
     O |-> "o", P |-> "p", Q |-> "q", R |-> "r", S |-> "s", T |-> "t", U |-> "u",
     V |-> "v", W |-> "w", X |-> "x", Y |-> "y", Z |-> "z"]

\* the characters str.strip() removes, among those of the model
Whitespace == {" ", "\t", "\n", "\r"}

UpperChar(c) == IF c \in DOMAIN UpperOf THEN UpperOf[c] ELSE c

LowerChar(c) == IF c \in DOMAIN LowerOf THEN LowerOf[c] ELSE c

\* str.upper(), str.lower()
Upper(s) == [i \in 1..Len(s) |-> UpperChar(s[i])]
Lower(s) == [i \in 1..Len(s) |-> LowerChar(s[i])]

\* s.replace(c, "")
Remove(s, c) == SelectSeq(s, LAMBDA x : x # c)

\* s.replace(c, d) for single characters
ReplaceChar(s, c, d) == [i \in 1..Len(s) |-> IF s[i] = c THEN d ELSE s[i]]

\* "".join(c for c in s if c in set)
Keep(s, set) == SelectSeq(s, LAMBDA x : x \in set)

AllIn(s, set) == \A i \in 1..Len(s) : s[i] \in set

StartsWith(s, p) == Len(s) >= Len(p) /\ SubSeq(s, 1, Len(p)) = p

\* p in s
Contains(s, p) == \E i \in 1..(Len(s) - Len(p) + 1) : SubSeq(s, i, i + Len(p) - 1) = p

\* s.lstrip(chars), s.rstrip(chars), s.strip()
RECURSIVE LStripSet(_, _)
LStripSet(s, set) ==
    IF Len(s) > 0 /\ s[1] \in set THEN LStripSet(Tail(s), set) ELSE s

RECURSIVE RStripSet(_, _)
RStripSet(s, set) ==
    IF Len(s) > 0 /\ s[Len(s)] \in set
    THEN RStripSet(SubSeq(s, 1, Len(s) - 1), set)
    ELSE s

Strip(s) == RStripSet(LStripSet(s, Whitespace), Whitespace)

\* SQLite TRIM(X): removes spaces only
SqlTrim(s) == RStripSet(LStripSet(s, {" "}), {" "})

\* s.split(sep): "" splits to [""]
RECURSIVE Split(_, _)
Split(s, sep) ==
    IF \A i \in 1..Len(s) : s[i] # sep
    THEN <<s>>
    ELSE LET k == CHOOSE i \in 1..Len(s) :
                      s[i] = sep /\ \A j \in 1..(i - 1) : s[j] # sep
         IN  <<SubSeq(s, 1, k - 1)>> \o Split(SubSeq(s, k + 1, Len(s)), sep)

\* s.split(sep, 1), for s that contains sep
SplitOnce(s, sep) ==
    LET k == CHOOSE i \in 1..Len(s) : s[i] = sep /\ \A j \in 1..(i - 1) : s[j] # sep
    IN  <<SubSeq(s, 1, k - 1), SubSeq(s, k + 1, Len(s))>>

\* sep.join(parts)
RECURSIVE Join(_, _)
Join(parts, sep) ==
    IF parts = <<>> THEN <<>>
    ELSE IF Len(parts) = 1 THEN parts[1]
    ELSE parts[1] \o <<sep>> \o Join(Tail(parts), sep)

\* ":".join(h[i:i+2] for i in range(0, 12, 2)) for a 12-character h
ColonJoin12(h) ==
    <<h[1], h[2], ":", h[3], h[4], ":", h[5], h[6], ":",
      h[7], h[8], ":", h[9], h[10], ":", h[11], h[12]>>

(***************************************************************************)
(* Hex decoding of a network name (services/ingest.py)                     *)
(***************************************************************************)
\* chr(n) for 32 <= n <= 126 (the grave accent, 96, is written by its code)
PrintableAscii ==
    <<" ", "!", "\"", "#", "$", "%", "&", "'", "(", ")", "*", "+", ",", "-", ".", "/",
      "0", "1", "2", "3", "4", "5", "6", "7", "8", "9", ":", ";", "<", "=", ">", "?",
      "@", "A", "B", "C", "D", "E", "F", "G", "H", "I", "J", "K", "L", "M", "N", "O",
      "P", "Q", "R", "S", "T", "U", "V", "W", "X", "Y", "Z", "[", "\\", "]", "^", "_",
      "chr96", "a", "b", "c", "d", "e", "f", "g", "h", "i", "j", "k", "l", "m", "n", "o",
      "p", "q", "r", "s", "t", "u", "v", "w", "x", "y", "z", "{", "|", "}", "~">>

\* chr(n) for an ASCII byte; a control character is named by its code
Chr(n) ==
    IF n >= 32 /\ n <= 126 THEN PrintableAscii[n - 31] ELSE "chr" \o ToString(n)

HexDigitSeq == <<"0", "1", "2", "3", "4", "5", "6", "7", "8", "9",
                 "A", "B", "C", "D", "E", "F">>

\* int(c, 16) of one hex digit
HexVal(c) == (CHOOSE i \in 1..16 : HexDigitSeq[i] = UpperChar(c)) - 1

\* bytes.fromhex(s) for an even-length all-hex s
BytesFromHex(s) ==
    [i \in 1..(Len(s) \div 2) |-> 16 * HexVal(s[2 * i - 1]) + HexVal(s[2 * i])]

\* bytes.decode("utf-8", errors="ignore"), for byte strings in which no byte
\* above 0x7f is part of a well-formed multi-byte sequence: those are dropped
RECURSIVE DecodeUtf8Ignore(_)
DecodeUtf8Ignore(bs) ==
    IF bs = <<>> THEN <<>>
    ELSE IF Head(bs) < 128 THEN <<Chr(Head(bs))>> \o DecodeUtf8Ignore(Tail(bs))
    ELSE DecodeUtf8Ignore(Tail(bs))

_is_hex(s) == Len(s) % 2 = 0 /\ AllIn(s, HexChars)

_decode_essid(essid_field) ==
    IF _is_hex(essid_field)
    THEN DecodeUtf8Ignore(BytesFromHex(essid_field))
    ELSE essid_field

(***************************************************************************)
(* Exceptions: a function that raises returns a record naming the class    *)
(***************************************************************************)
Raise(cls) == [exc |-> cls]
Raised(v) == DOMAIN v = {"exc"}

(***************************************************************************)
(* Hash-line parsing and conversion (services/ingest.py)                   *)
(***************************************************************************)
Sentinel == <<"W", "P", "A", "*">>
WPA == <<"W", "P", "A">>
PMKID == <<"P", "M", "K", "I", "D">>
EAPOL == <<"E", "A", "P", "O", "L">>

\* _parse_22000_line reading an EAPOL line's fields from right after the kind
\* code
_parse_22000_line_ApAfterKind(line) ==
    LET s == Strip(line)
        parts == Split(s, "*")
        kind_code == parts[2]
    IN  IF ~StartsWith(s, Sentinel) THEN Raise("ValueError")
        ELSE IF Len(parts) < 3 THEN Raise("ValueError")
        ELSE IF kind_code = <<"0", "1">>
        THEN IF Len(parts) < 6 THEN Raise("ValueError")
             ELSE [kind |-> PMKID, bssid |-> parts[4], station |-> parts[5],
                   ssid |-> _decode_essid(parts[6]), hash_type |-> WPA,
                   variant |-> PMKID]
        ELSE IF kind_code = <<"0", "2">>
        THEN IF Len(parts) < 6 THEN Raise("ValueError")
             ELSE [kind |-> EAPOL, bssid |-> parts[3], station |-> parts[4],
                   ssid |-> _decode_essid(parts[5]), hash_type |-> WPA,
                   variant |-> EAPOL]
        ELSE Raise("ValueError")

_parse_22000_line(line) ==
    LET s == Strip(line)
        parts == Split(s, "*")
        kind_code == parts[2]
    IN  IF ~StartsWith(s, Sentinel) THEN Raise("ValueError")
        ELSE IF Len(parts) < 3 THEN Raise("ValueError")
        ELSE IF kind_code = <<"0", "1">>
        THEN IF Len(parts) < 6 THEN Raise("ValueError")
             ELSE [kind |-> PMKID, bssid |-> parts[4], station |-> parts[5],
                   ssid |-> _decode_essid(parts[6]), hash_type |-> WPA,
                   variant |-> PMKID]
        ELSE IF kind_code = <<"0", "2">>
        THEN IF Len(parts) < 6 THEN Raise("ValueError")
             ELSE [kind |-> EAPOL, bssid |-> parts[4], station |-> parts[5],
                   ssid |-> _decode_essid(parts[6]), hash_type |-> WPA,
                   variant |-> EAPOL]
        ELSE Raise("ValueError")

_fmt_mac_colon(hex12) ==
    LET h == Keep(hex12, HexChars)
    IN  IF Len(h) # 12 THEN <<>> ELSE Upper(ColonJoin12(h))

\* str.splitlines() of a text whose only line boundary is "\n"
SplitLines(text) ==
    IF text = <<>> THEN <<>>
    ELSE IF text[Len(text)] = "\n" THEN Split(SubSeq(text, 1, Len(text) - 1), "\n")
    ELSE Split(text, "\n")

\* The converter process as the handler sees it: its exit status, whether the
\* output file exists afterwards, and that file's text.
\* The pcap file was written by the handler just before, so it exists.
convert_pcap_to_hc22000_and_meta(conv) ==
    IF conv.returncode # 0 THEN Raise("RuntimeError")
    ELSE IF ~conv.out_exists THEN Raise("RuntimeError")
    ELSE LET text == Strip(conv.text)
             wpa == SelectSeq(SplitLines(text), LAMBDA ln : StartsWith(ln, Sentinel))
         IN  IF text = <<>> THEN Raise("RuntimeError")
             ELSE IF wpa = <<>> THEN Raise("RuntimeError")
             ELSE LET meta == _parse_22000_line(wpa[1])
                  IN  IF Raised(meta) THEN meta
                      ELSE LET bssid_raw == Remove(Remove(meta.bssid, ":"), "-")
                               lowered == Lower(bssid_raw)
                               bssid_hex12 ==
                                   IF Len(lowered) = 12 /\ AllIn(lowered, HexLowerChars)
                                   THEN lowered ELSE <<>>
                           IN  [ssid |-> IF meta.ssid # <<>> THEN meta.ssid ELSE None,
                                bssid |-> IF bssid_hex12 # <<>>
                                          THEN _fmt_mac_colon(bssid_hex12) ELSE None,
                                type |-> WPA,
                                variant |-> meta.variant]

(***************************************************************************)
(* Address normalisation at the upload router (routers/upload.py)          *)
(***************************************************************************)
\* BSSID_RE.fullmatch: five groups of two hex digits and ':' or '-', then two
BSSID_RE_fullmatch(x) ==
    /\ Len(x) = 17
    /\ \A i \in 1..17 : IF i % 3 = 0 THEN x[i] \in {":", "-"} ELSE x[i] \in HexChars

norm_bssid(x) ==
    IF ~Truthy(x) THEN None
    ELSE LET y == ReplaceChar(Upper(Strip(x)), "-", ":")
         IN  IF BSSID_RE_fullmatch(y) THEN y ELSE None

\* Path(name).stem for a name without directory part: the name up to its last
\* dot, unless that dot is the first or the last character
PathStem(name) ==
    IF \E i \in 1..Len(name) : name[i] = "."
    THEN LET k == CHOOSE i \in 1..Len(name) :
                      name[i] = "." /\ \A j \in (i + 1)..Len(name) : name[j] # "."
         IN  IF 1 < k /\ k < Len(name) THEN SubSeq(name, 1, k - 1) ELSE name
    ELSE name

safe_stem(name) ==
    LET stem == PathStem(name)
    IN  IF \E i \in 1..Len(stem) : stem[i] = "_" THEN Split(stem, "_")[1] ELSE stem

(***************************************************************************)
(* Vendor lookup (services/ingest.py, class OUILookup)                     *)
(***************************************************************************)
PrefixLengths == <<9, 7, 6>>

EmptyOuiMap == [L \in {6, 7, 9} |-> <<>>]

\* dict[key] = value on a dict kept as a function
DictSet(d, key, value) ==
    [k \in DOMAIN d \cup {key} |-> IF k = key THEN value ELSE d[k]]

\* the for loop of _load over the rows csv.reader yields
RECURSIVE LoadRows(_, _)
LoadRows(rows, m) ==
    IF rows = <<>> THEN m
    ELSE LET row == Head(rows)
             prefix == Upper(Strip(row[1]))
             vendor == Strip(row[2])
             L == Len(prefix)
         IN  IF row = <<>> \/ StartsWith(row[1], <<"#">>) THEN LoadRows(Tail(rows), m)
             ELSE IF Len(row) < 2 THEN LoadRows(Tail(rows), m)
             ELSE IF L \in {6, 7, 9} /\ AllIn(prefix, HexUpperChars)
             THEN LoadRows(Tail(rows), [m EXCEPT ![L] = DictSet(m[L], prefix, vendor)])
             ELSE LoadRows(Tail(rows), m)

\* OUILookup._load: <<_loaded, _map_by_len, exception raised or "">> afterwards.
\* p.open() raises when the file cannot be read; the reader raises at row
\* csv.fault.at when the bytes it decodes there are not UTF-8, with the rows
\* before it already written
OUILookup_load(loaded, m, csv) ==
    IF loaded THEN <<loaded, m, "">>
    ELSE IF ~csv.exists THEN <<TRUE, m, "">>
    ELSE IF csv.fault.exc = "PermissionError" THEN <<FALSE, m, csv.fault.exc>>
    ELSE IF csv.fault.at > 0
    THEN <<FALSE, LoadRows(SubSeq(csv.rows, 1, csv.fault.at - 1), m), csv.fault.exc>>
    ELSE <<TRUE, LoadRows(csv.rows, m), "">>

\* the loop "for L in (9, 7, 6)" from position i of PrefixLengths on
RECURSIVE PrefixScan(_, _, _)
PrefixScan(m, mac, i) ==
    IF i > Len(PrefixLengths) THEN None
    ELSE LET L == PrefixLengths[i]
             pref == SubSeq(mac, 1, L)
         IN  IF pref \in DOMAIN m[L] /\ Truthy(m[L][pref])
             THEN m[L][pref]
             ELSE PrefixScan(m, mac, i + 1)

\* OUILookup.vendor_for_bssid after _load: the value returned
vendor_for_bssid(m, bssid_hex12) ==
    IF ~Truthy(bssid_hex12) THEN None
    ELSE LET mac == Keep(Upper(bssid_hex12), HexUpperChars)
         IN  IF Len(mac) < 9 THEN None ELSE PrefixScan(m, mac, 1)

\* lookup_vendor_from_csv: <<value returned, _loaded, _map_by_len, exception
\* raised or "">>
lookup_vendor_from_csv(loaded, m, csv, bssid) ==
    IF ~Truthy(bssid) THEN <<None, loaded, m, "">>
    ELSE LET cleaned == Upper(Strip(Remove(Remove(bssid, ":"), "-")))
         IN  IF Len(cleaned) # 12 \/ ~AllIn(cleaned, HexUpperChars)
             THEN <<None, loaded, m, "">>
             ELSE LET st == OUILookup_load(loaded, m, csv)
                  IN  <<IF st[3] # "" THEN None ELSE vendor_for_bssid(st[2], cleaned),
                        st[1], st[2], st[3]>>

(***************************************************************************)
(* Location document (services/ingest.py)                                  *)
(*                                                                         *)
(* The document is what json.loads makes of the bytes: not JSON at all, or *)
(* a dict from keys to values.  A value is a number [t |-> "num", v |-> n] *)
(* (n in hundredths), a string [t |-> "str", v |-> s], null or a list.     *)
(***************************************************************************)
RECURSIVE DecValue(_)
DecValue(s) == IF s = <<>> THEN 0 ELSE 10 * DecValue(SubSeq(s, 1, Len(s) - 1)) + HexVal(s[Len(s)])

IsNumber(s, minLen, maxLen) == Len(s) >= minLen /\ Len(s) <= maxLen /\ AllIn(s, Digits)

DaysInMonth(y, m) ==
    IF m \in {4, 6, 9, 11} THEN 30
    ELSE IF m # 2 THEN 31
    ELSE IF (y % 4 = 0 /\ y % 100 # 0) \/ y % 400 = 0 THEN 29
    ELSE 28

\* datetime(y, mo, d, h, mi, sec), or ValueError when a field is out of range
MakeDateTime(y, mo, d, h, mi, sec) ==
    IF y >= 1 /\ mo >= 1 /\ mo <= 12 /\ d >= 1 /\ d <= DaysInMonth(y, mo)
       /\ h <= 23 /\ mi <= 59 /\ sec <= 59
    THEN [year |-> y, month |-> mo, day |-> d, hour |-> h, minute |-> mi, second |-> sec]
    ELSE Raise("ValueError")

\* datetime.fromisoformat(s).replace(tzinfo=None), for the forms
\* YYYY-MM-DD, YYYY-MM-DD?HH:MM:SS and the latter followed by +HH:MM or -HH:MM
FromIsoFormat(s) ==
    LET dateOk == Len(s) >= 10 /\ IsNumber(SubSeq(s, 1, 4), 4, 4) /\ s[5] = "-"
                  /\ IsNumber(SubSeq(s, 6, 7), 2, 2) /\ s[8] = "-"
                  /\ IsNumber(SubSeq(s, 9, 10), 2, 2)
        timeOk == Len(s) >= 19 /\ IsNumber(SubSeq(s, 12, 13), 2, 2) /\ s[14] = ":"
                  /\ IsNumber(SubSeq(s, 15, 16), 2, 2) /\ s[17] = ":"
                  /\ IsNumber(SubSeq(s, 18, 19), 2, 2)
        zoneOk == Len(s) = 25 /\ s[20] \in {"+", "-"}
                  /\ IsNumber(SubSeq(s, 21, 22), 2, 2) /\ s[23] = ":"
                  /\ IsNumber(SubSeq(s, 24, 25), 2, 2)
                  /\ DecValue(SubSeq(s, 21, 22)) <= 23 /\ DecValue(SubSeq(s, 24, 25)) <= 59
        y == DecValue(SubSeq(s, 1, 4))
        mo == DecValue(SubSeq(s, 6, 7))
        d == DecValue(SubSeq(s, 9, 10))
    IN  IF ~dateOk THEN Raise("ValueError")
        ELSE IF Len(s) = 10 THEN MakeDateTime(y, mo, d, 0, 0, 0)
        ELSE IF timeOk /\ (Len(s) = 19 \/ zoneOk)
        THEN MakeDateTime(y, mo, d, DecValue(SubSeq(s, 12, 13)),
                          DecValue(SubSeq(s, 15, 16)), DecValue(SubSeq(s, 18, 19)))
        ELSE Raise("ValueError")

\* datetime.strptime(s, "%Y-%m-%d %H:%M:%S"): %Y takes four digits, the other
\* fields one or two
StrpTime(s) ==
    LET halves == Split(s, " ")
        dp == Split(halves[1], "-")
        tp == Split(halves[2], ":")
    IN  IF Len(halves) = 2 /\ Len(dp) = 3 /\ Len(tp) = 3
           /\ IsNumber(dp[1], 4, 4) /\ IsNumber(dp[2], 1, 2) /\ IsNumber(dp[3], 1, 2)
           /\ IsNumber(tp[1], 1, 2) /\ IsNumber(tp[2], 1, 2) /\ IsNumber(tp[3], 1, 2)
        THEN MakeDateTime(DecValue(dp[1]), DecValue(dp[2]), DecValue(dp[3]),
                          DecValue(tp[1]), DecValue(tp[2]), DecValue(tp[3]))
        ELSE Raise("ValueError")

\* s.replace("Z", "+00:00")
RECURSIVE ReplaceZ(_)
ReplaceZ(s) ==
    IF s = <<>> THEN <<>>
    ELSE IF Head(s) = "Z" THEN <<"+", "0", "0", ":", "0", "0">> \o ReplaceZ(Tail(s))
    ELSE <<Head(s)>> \o ReplaceZ(Tail(s))

_parse_updated_datetime(updated) ==
    LET s == Strip(updated)
        iso == FromIsoFormat(ReplaceZ(s))
    IN  IF ~Raised(iso) THEN iso ELSE StrpTime(s)

\* str(n) zero-padded to width digits
RECURSIVE ZeroPad(_, _)
ZeroPad(n, width) ==
    IF width = 0 THEN <<>> ELSE ZeroPad(n \div 10, width - 1) \o <<HexDigitSeq[(n % 10) + 1]>>

\* dt.strftime("%Y-%m-%d"), dt.strftime("%H:%M:%S")
StrfDate(dt) == ZeroPad(dt.year, 4) \o <<"-">> \o ZeroPad(dt.month, 2) \o <<"-">> \o ZeroPad(dt.day, 2)
StrfTime(dt) == ZeroPad(dt.hour, 2) \o <<":">> \o ZeroPad(dt.minute, 2) \o <<":">> \o ZeroPad(dt.second, 2)

JsonNull == [t |-> "null"]

\* str(x) of a JSON value: the text of a string; other values have a text that
\* is no timestamp
StrOf(x) == IF x.t = "str" THEN x.v ELSE <<"n", "o", "n", "e">>

\* float(x), a number being [num |-> n] with n in thousandths: ValueError for a
\* string that is not numeric (no string of the model is), TypeError for null
\* and for a list
FloatOf(x) ==
    IF x.t = "num" THEN [num |-> x.v]
    ELSE IF x.t = "str" THEN Raise("ValueError")
    ELSE Raise("TypeError")

\* round(x, 2) of a number >= 0 in thousandths
Round2(x) == [num |-> ((x.num + 5) \div 10) * 10]

\* data.get(key)
DictGet(data, key) == IF key \in DOMAIN data THEN data[key] ELSE JsonNull

parse_gps_json(doc) ==
    IF ~doc.json THEN Raise("ValueError")
    ELSE LET data == doc.data
             dt == _parse_updated_datetime(StrOf(data["Updated"]))
             lat == FloatOf(data["Latitude"])
             lon == FloatOf(data["Longitude"])
             altf == FloatOf(data["Altitude"])
             alt == IF DictGet(data, "Altitude") # JsonNull
                    THEN (IF Raised(altf) THEN altf ELSE Round2(altf))
                    ELSE Absent
             acc == IF DictGet(data, "Accuracy") # JsonNull
                    THEN FloatOf(data["Accuracy"]) ELSE Absent
         IN  IF ~({"Updated", "Latitude", "Longitude"} \subseteq DOMAIN data)
             THEN Raise("ValueError")
             ELSE IF Raised(dt) THEN dt
             ELSE IF Raised(lat) THEN lat
             ELSE IF Raised(lon) THEN lon
             ELSE IF Raised(alt) THEN alt
             ELSE IF Raised(acc) THEN acc
             ELSE [datetime |-> dt, latitude |-> lat, longitude |-> lon,
                   altitude |-> alt, accuracy |-> acc]

(***************************************************************************)
(* Potfile parsing (services/wpasec_sync.py)                               *)
(***************************************************************************)
\* a (bssid, password) tuple
Pair(b, p) == [bssid |-> b, pwd |-> p]

_hex_to_mac_KeepCase(s0) ==
    LET s == Strip(s0)
    IN  IF Len(s) = 12 /\ AllIn(s, HexChars) THEN ColonJoin12(s) ELSE <<>>

_hex_to_mac(s0) ==
    LET s == Upper(Strip(s0))
    IN  IF Len(s) = 12 /\ AllIn(s, HexUpperChars) THEN ColonJoin12(s) ELSE <<>>

\* the labels of the key=value fallback, in the order tried
FallbackKeys ==
    << <<"A", "P", "=">>,
       <<"A", "P", "M", "A", "C", "=">>,
       <<"B", "S", "S", "I", "D", "=">>,
       <<"A", "P", "_", "M", "A", "C", "=">>,
       <<"B", "S", "S", "I", "D", "_", "M", "A", "C", "=">> >>

\* re.search(key + "([0-9A-Fa-f]{12})", s): the positions where key is followed
\* by twelve hex digits
KeyMatches(s, key) ==
    {i \in 1..Len(s) :
        /\ i + Len(key) + 11 <= Len(s)
        /\ SubSeq(s, i, i + Len(key) - 1) = key
        /\ AllIn(SubSeq(s, i + Len(key), i + Len(key) + 11), HexChars)}

\* group(1) of the leftmost match
KeyGroup(s, key) ==
    LET i == CHOOSE k \in KeyMatches(s, key) : \A j \in KeyMatches(s, key) : k <= j
    IN  SubSeq(s, i + Len(key), i + Len(key) + 11)

\* step 4 of parse_pot_line from key number i on
RECURSIVE FallbackScan(_, _)
FallbackScan(s, i) ==
    IF i > Len(FallbackKeys) THEN Absent
    ELSE LET key == FallbackKeys[i]
             bssid == _hex_to_mac(KeyGroup(s, key))
             pwd == IF Contains(s, <<":">>) THEN SplitOnce(s, ":")[2] ELSE <<>>
         IN  IF KeyMatches(s, key) # {} /\ bssid # <<>> /\ pwd # <<>>
             THEN Pair(bssid, pwd)
             ELSE FallbackScan(s, i + 1)

\* step 3 of parse_pot_line: WPA*01/02*...:PASS; Absent when it falls through
HashLineForm(s) ==
    IF ~Contains(s, <<":">>) THEN Absent
    ELSE LET hashpart == SplitOnce(s, ":")[1]
             pwd == SplitOnce(s, ":")[2]
             seg == Split(hashpart, "*")
             pm == _hex_to_mac(seg[4])
             ea == _hex_to_mac(seg[3])
         IN  IF pwd # <<>> /\ StartsWith(hashpart, Sentinel) /\ Len(seg) >= 3
                /\ seg[2] \in {<<"0", "1">>, <<"0", "2">>}
             THEN IF Len(seg) >= 5 /\ Upper(seg[3]) = PMKID /\ pm # <<>>
                  THEN Pair(pm, pwd)
                  ELSE IF ea # <<>> THEN Pair(ea, pwd) ELSE Absent
             ELSE Absent

\* parse_pot_line with the plain form taken for lines of exactly four fields
parse_pot_line_PlainOfFour(line) ==
    LET s == RStripSet(line, {"\r", "\n"})
        parts_colon == Split(s, ":")
        n == Len(parts_colon)
        pwd == parts_colon[n]
        short == _hex_to_mac(parts_colon[2])
        plain == _hex_to_mac(parts_colon[1])
    IN  IF s = <<>> \/ StartsWith(s, <<"#">>) THEN Absent
        ELSE IF n >= 5 /\ short # <<>> /\ pwd # <<>> THEN Pair(short, pwd)
        ELSE IF n = 4 /\ plain # <<>> /\ pwd # <<>> THEN Pair(plain, pwd)
        ELSE IF HashLineForm(s) # Absent THEN HashLineForm(s)
        ELSE FallbackScan(s, 1)

\* parse_pot_line with the plain form tried before the short form
parse_pot_line_PlainFirst(line) ==
    LET s == RStripSet(line, {"\r", "\n"})
        parts_colon == Split(s, ":")
        n == Len(parts_colon)
        pwd == parts_colon[n]
        short == _hex_to_mac(parts_colon[2])
        plain == _hex_to_mac(parts_colon[1])
    IN  IF s = <<>> \/ StartsWith(s, <<"#">>) THEN Absent
        ELSE IF n >= 4 /\ plain # <<>> /\ pwd # <<>> THEN Pair(plain, pwd)
        ELSE IF n >= 5 /\ short # <<>> /\ pwd # <<>> THEN Pair(short, pwd)
        ELSE IF HashLineForm(s) # Absent THEN HashLineForm(s)
        ELSE FallbackScan(s, 1)

parse_pot_line(line) ==
    LET s == RStripSet(line, {"\r", "\n"})
        parts_colon == Split(s, ":")
        n == Len(parts_colon)
        pwd == parts_colon[n]
        short == _hex_to_mac(parts_colon[2])
        plain == _hex_to_mac(parts_colon[1])
    IN  IF s = <<>> \/ StartsWith(s, <<"#">>) THEN Absent
        ELSE IF n >= 5 /\ short # <<>> /\ pwd # <<>> THEN Pair(short, pwd)
        ELSE IF n >= 4 /\ plain # <<>> /\ pwd # <<>> THEN Pair(plain, pwd)
        ELSE IF HashLineForm(s) # Absent THEN HashLineForm(s)
        ELSE FallbackScan(s, 1)

\* _MAC_RE.fullmatch: six groups of two hex digits joined by ':'
_is_valid_bssid(s) ==
    /\ Len(s) = 17
    /\ \A i \in 1..17 : IF i % 3 = 0 THEN s[i] = ":" ELSE s[i] \in HexChars

\* DedupFold with a later non-empty password replacing the one kept
RECURSIVE DedupFold_LastWins(_, _)
DedupFold_LastWins(pairs, best) ==
    IF pairs = <<>> THEN best
    ELSE LET bssid == Head(pairs).bssid
             pwd == Head(pairs).pwd
             bssid_u == Upper(bssid)
             at == {i \in 1..Len(best) : best[i].bssid = bssid_u}
             k == CHOOSE i \in at : TRUE
         IN  IF ~_is_valid_bssid(bssid) THEN DedupFold_LastWins(Tail(pairs), best)
             ELSE IF at = {}
             THEN DedupFold_LastWins(Tail(pairs), Append(best, Pair(bssid_u, pwd)))
             ELSE IF pwd # <<>>
             THEN DedupFold_LastWins(Tail(pairs), [best EXCEPT ![k] = Pair(bssid_u, pwd)])
             ELSE DedupFold_LastWins(Tail(pairs), best)

\* the dict best of _dedup_cracked, kept as the list of its items in insertion
\* order, after the pairs have been folded in
RECURSIVE DedupFold(_, _)
DedupFold(pairs, best) ==
    IF pairs = <<>> THEN best
    ELSE LET bssid == Head(pairs).bssid
             pwd == Head(pairs).pwd
             bssid_u == Upper(bssid)
             at == {i \in 1..Len(best) : best[i].bssid = bssid_u}
             k == CHOOSE i \in at : TRUE
         IN  IF ~_is_valid_bssid(bssid) THEN DedupFold(Tail(pairs), best)
             ELSE IF at = {}
             THEN DedupFold(Tail(pairs), Append(best, Pair(bssid_u, pwd)))
             ELSE IF best[k].pwd = <<>> /\ pwd # <<>>
             THEN DedupFold(Tail(pairs), [best EXCEPT ![k] = Pair(bssid_u, pwd)])
             ELSE DedupFold(Tail(pairs), best)

_dedup_cracked(pairs) == DedupFold(pairs, <<>>)

\* the loop of _parse_text over the lines, from line i on
RECURSIVE ParseLines(_, _)
ParseLines(lines, i) ==
    IF i > Len(lines) THEN <<>>
    ELSE LET parsed == parse_pot_line(lines[i])
         IN  IF parsed # Absent THEN <<parsed>> \o ParseLines(lines, i + 1)
             ELSE ParseLines(lines, i + 1)

_parse_text(text) == _dedup_cracked(ParseLines(SplitLines(text), 1))

\* download_cracked_potfile with the cookie request made whenever the primary
\* body gives no pair
download_cracked_potfile_WheneverNoPairs(key_set, primary, cookie) ==
    IF ~key_set THEN Raise("WpaSecSyncError")
    ELSE IF ~primary.ok THEN Raise("WpaSecSyncError")
    ELSE LET pairs == _parse_text(primary.text)
         IN  IF pairs = <<>>
             THEN IF ~cookie.ok THEN Raise("RequestException")
                  ELSE [pairs |-> _parse_text(cookie.text), cookie_request |-> TRUE]
             ELSE [pairs |-> pairs, cookie_request |-> FALSE]

\* download_cracked_potfile: the pair list and whether the cookie request was
\* made, or the exception raised.
\* primary is what _http_get_with_retry ends with and cookie what the second
\* request would: [ok |-> whether a 2xx response arrived, text |-> its body]
download_cracked_potfile(key_set, primary, cookie) ==
    IF ~key_set THEN Raise("WpaSecSyncError")
    ELSE IF ~primary.ok THEN Raise("WpaSecSyncError")
    ELSE LET pairs == _parse_text(primary.text)
             looks_html == Contains(Lower(primary.text), <<"<", "h", "t", "m", "l">>)
                           \/ Contains(Lower(primary.text), <<"<", "/", "h", "t", "m", "l", ">">>)
         IN  IF pairs = <<>> /\ (looks_html \/ Len(primary.text) < 10)
             THEN IF ~cookie.ok THEN Raise("RequestException")
                  ELSE [pairs |-> _parse_text(cookie.text), cookie_request |-> TRUE]
             ELSE [pairs |-> pairs, cookie_request |-> FALSE]

(***************************************************************************)
(* Table networks (db/database.py, db/queries.py)                          *)
(***************************************************************************)
\* UniqueConflict with NULLs held equal to each other
UniqueConflict_NullsEqual(nets, bssid, date, time) ==
    \E i \in 1..Len(nets) :
        nets[i].bssid = bssid /\ nets[i].date = date /\ nets[i].time = time

\* UNIQUE(bssid, date, time): a row with the same three values, none of them
\* NULL (SQLite holds NULLs to be distinct from each other)
UniqueConflict(nets, bssid, date, time) ==
    /\ bssid # None /\ date # None /\ time # None
    /\ \E i \in 1..Len(nets) :
           nets[i].bssid = bssid /\ nets[i].date = date /\ nets[i].time = time

\* SELECT id FROM networks WHERE bssid = ? AND date = ? AND time = ?
SelectIds(nets, bssid, date, time) ==
    {i \in 1..Len(nets) :
        /\ bssid # None /\ date # None /\ time # None
        /\ nets[i].bssid = bssid /\ nets[i].date = date /\ nets[i].time = time}

\* insert_network_record without the SELECT after an ignored INSERT
insert_network_record_NoSelect(nets, rec, db_error) ==
    LET ignored == UniqueConflict(nets, rec.bssid, rec.date, rec.time)
        new_id == IF ignored THEN 0 ELSE Len(nets) + 1
        after == IF ignored THEN nets ELSE Append(nets, [rec EXCEPT !.id = new_id])
    IN  IF db_error THEN <<nets, -1>> ELSE <<after, new_id>>

\* insert_network_record: <<the table afterwards, the value returned>>.
\* db_error: the connection or a statement raises sqlite3.Error; the block
\* "with sqlite3.connect(...)" is then left without a commit
insert_network_record(nets, rec, db_error) ==
    LET ignored == UniqueConflict(nets, rec.bssid, rec.date, rec.time)
        \* cur.lastrowid: zero on this fresh connection after an ignored INSERT
        new_id == IF ignored THEN 0 ELSE Len(nets) + 1
        after == IF ignored THEN nets ELSE Append(nets, [rec EXCEPT !.id = new_id])
        found == SelectIds(after, rec.bssid, rec.date, rec.time)
    IN  IF db_error THEN <<nets, -1>>
        ELSE IF new_id = 0 /\ rec.bssid # None
        THEN IF found # {}
             THEN <<after, CHOOSE i \in found : \A j \in found : i <= j>>
             ELSE <<after, -1>>
        ELSE <<after, new_id>>

\* REPLACE(REPLACE(UPPER(TRIM(x)), ':', ''), '-', '')
SqlNormBssid(x) == Remove(Remove(Upper(SqlTrim(x)), ":"), "-")

\* password IS NULL OR TRIM(password) = ''
SqlBlank(password) == password = None \/ SqlTrim(password) = <<>>

\* UpdateMatches without the condition on the password
UpdateMatches_AnyPassword(row, bssid) ==
    /\ row.bssid # None
    /\ SqlNormBssid(row.bssid) = SqlNormBssid(bssid)

\* the WHERE clause of the UPDATE of bulk_update_passwords
UpdateMatches(row, bssid) ==
    /\ row.bssid # None
    /\ SqlNormBssid(row.bssid) = SqlNormBssid(bssid)
    /\ SqlBlank(row.password)

\* no statement of the sync fails
NoFault == [at |-> 0, exc |-> ""]

\* The loop of bulk_update_passwords from item i on, on the connection's open
\* transaction: <<the table as the transaction sees it, updated, the exception
\* that ended the loop or "">>.
\* fault.at: the item whose UPDATE does not complete, with sqlite3.Error or,
\* for "crash", with the end of the process
RECURSIVE BulkLoop(_, _, _, _, _)
BulkLoop(nets, items, i, updated, fault) ==
    IF i > Len(items) THEN <<nets, updated, "">>
    ELSE LET bssid == items[i].bssid
             pwd == items[i].pwd
             hit == {r \in 1..Len(nets) : UpdateMatches(nets[r], bssid)}
             after == [r \in 1..Len(nets) |->
                          IF r \in hit THEN [nets[r] EXCEPT !.password = pwd]
                          ELSE nets[r]]
         IN  IF bssid = <<>> \/ pwd = <<>> THEN BulkLoop(nets, items, i + 1, updated, fault)
             ELSE IF i = fault.at THEN <<nets, updated, fault.exc>>
             ELSE BulkLoop(after, items, i + 1, updated + Cardinality(hit), fault)

\* bulk_update_passwords: <<the table afterwards, the value returned, the
\* exception raised or "">>. The UPDATEs run in the one transaction that the
\* first of them opens; conn.commit() after the loop makes them durable, and
\* leaving the with block by an exception, or the process ending, rolls them
\* back
bulk_update_passwords(nets, items, fault) ==
    IF items = <<>> THEN <<nets, 0, "">>
    ELSE LET done == BulkLoop(nets, items, 1, 0, fault)
         IN  IF done[3] # "" THEN <<nets, 0, done[3]>> ELSE done

(***************************************************************************)
(* Requests the handlers are driven with                                   *)
(***************************************************************************)
\* the most rows the table is let grow to
MaxRows == 2

\* file names of the uploaded capture; the empty one is a missing file name
FileNames ==
    { <<"C", "a", "f", "e", "_", "a", "a", "b", "b", "c", "c", "d", "d", "e", "e", "f", "f", ".", "p", "c", "a", "p">>,
      <<>> }

GpsNum(n) == [t |-> "num", v |-> n]

\* {"Updated": "2025-08-29 21:05:52", "Latitude": 45.1, "Longitude": 9.2}
GpsFixed ==
    [json |-> TRUE,
     data |-> [Updated |-> [t |-> "str", v |-> <<"2", "0", "2", "5", "-", "0", "8", "-", "2", "9", " ", "2", "1", ":", "0", "5", ":", "5", "2">>],
               Latitude |-> GpsNum(45100), Longitude |-> GpsNum(9200)]]

\* the same instant in the ISO form, with altitude 12.346 and accuracy 3.0
GpsIso ==
    [json |-> TRUE,
     data |-> [Updated |-> [t |-> "str", v |-> <<"2", "0", "2", "5", "-", "0", "8", "-", "2", "9", "T", "2", "1", ":", "0", "5", ":", "5", "2", "Z">>],
               Latitude |-> GpsNum(45100), Longitude |-> GpsNum(9200),
               Altitude |-> GpsNum(12346), Accuracy |-> GpsNum(3000)]]

\* a later instant, written without zero padding
GpsLater ==
    [json |-> TRUE,
     data |-> [Updated |-> [t |-> "str", v |-> <<"2", "0", "2", "5", "-", "8", "-", "3", "0", " ", "7", ":", "0", "5", ":", "5", "2">>],
               Latitude |-> GpsNum(45100), Longitude |-> GpsNum(9200)]]

GpsDocs ==
    { GpsFixed, GpsIso, GpsLater,
      \* not a JSON document
      [json |-> FALSE, data |-> <<>>],
      \* no Latitude key
      [json |-> TRUE,
       data |-> [Updated |-> [t |-> "str", v |-> <<"2", "0", "2", "5", "-", "0", "8", "-", "2", "9", " ", "2", "1", ":", "0", "5", ":", "5", "2">>],
                 Longitude |-> GpsNum(9200)]],
      \* an Updated value in neither form
      [json |-> TRUE,
       data |-> [Updated |-> [t |-> "str", v |-> <<"y", "e", "s", "t", "e", "r", "d", "a", "y">>],
                 Latitude |-> GpsNum(45100), Longitude |-> GpsNum(9200)]],
      \* "Latitude": null
      [json |-> TRUE,
       data |-> [Updated |-> [t |-> "str", v |-> <<"2", "0", "2", "5", "-", "0", "8", "-", "2", "9", " ", "2", "1", ":", "0", "5", ":", "5", "2">>],
                 Latitude |-> JsonNull, Longitude |-> GpsNum(9200)]],
      \* "Latitude": "north"
      [json |-> TRUE,
       data |-> [Updated |-> [t |-> "str", v |-> <<"2", "0", "2", "5", "-", "0", "8", "-", "2", "9", " ", "2", "1", ":", "0", "5", ":", "5", "2">>],
                 Latitude |-> [t |-> "str", v |-> <<"n", "o", "r", "t", "h">>],
                 Longitude |-> GpsNum(9200)]],
      \* "Longitude": [9.2]
      [json |-> TRUE,
       data |-> [Updated |-> [t |-> "str", v |-> <<"2", "0", "2", "5", "-", "0", "8", "-", "2", "9", " ", "2", "1", ":", "0", "5", ":", "5", "2">>],
                 Latitude |-> GpsNum(45100), Longitude |-> [t |-> "list"]]] }

Converted(text) == [returncode |-> 0, out_exists |-> TRUE, text |-> text]

LinePmkid ==
    <<"W", "P", "A", "*", "0", "1", "*", "a", "b", "1", "2", "*", "a", "a", "b", "b",
      "c", "c", "d", "d", "e", "e", "f", "f", "*", "1", "1", "2", "2", "3", "3", "4",
      "4", "5", "5", "6", "6", "*", "4", "d", "7", "9", "5", "3", "5", "3", "4", "9",
      "4", "4", "*", "*", "*">>

\* kind 02 with the MIC in position 2, and a name that is not hex
LineEapolMic ==
    <<"W", "P", "A", "*", "0", "2", "*", "c", "d", "3", "4", "*", "A", "A", "B", "B",
      "C", "C", "D", "D", "E", "E", "F", "F", "*", "1", "1", "2", "2", "3", "3", "4",
      "4", "5", "5", "6", "6", "*", "N", "e", "t", "!", "*", "0", "0", "*", "0", "1",
      "*", "0", "2">>

\* kind 02 with the access point's address right after the kind code
LineEapolApFirst ==
    <<"W", "P", "A", "*", "0", "2", "*", "a", "a", "b", "b", "c", "c", "d", "d", "e",
      "e", "f", "f", "*", "1", "1", "2", "2", "3", "3", "4", "4", "5", "5", "6", "6",
      "*", "4", "d", "7", "9", "5", "3", "5", "3", "4", "9", "4", "4", "*", "0", "0">>

LineTruncated ==
    <<"W", "P", "A", "*", "0", "1", "*", "a", "b", "1", "2", "*", "a", "a", "b", "b",
      "c", "c", "d", "d", "e", "e", "f", "f">>

LineNoSentinel ==
    <<"s", "u", "m", "m", "a", "r", "y", ":", " ", "0", " ", "h", "a", "n", "d", "s",
      "h", "a", "k", "e", "s">>

NewLine == <<"\n">>

ConverterOutcomes ==
    { [returncode |-> 1, out_exists |-> FALSE, text |-> <<>>],
      [returncode |-> 0, out_exists |-> FALSE, text |-> <<>>],
      Converted(NewLine),
      Converted(LineNoSentinel \o NewLine),
      Converted(LineNoSentinel \o NewLine \o LinePmkid \o NewLine \o LineEapolMic \o NewLine),
      Converted(LinePmkid \o NewLine),
      Converted(LineEapolMic \o NewLine),
      Converted(LineEapolApFirst \o NewLine),
      Converted(<<"W", "P", "A", "*", "0", "2", "*", "c", "d", "3", "4", "*", "a", "a", "b", "b",
                  "c", "c", "d", "d", "e", "e", "g", "g", "*", "1", "1", "2", "2", "3", "3", "4",
                  "4", "5", "5", "6", "6", "*", "4", "d", "7", "9", "5", "3", "5", "3", "4", "9",
                  "4", "4", "*", "0", "0">> \o NewLine),
      Converted(LineTruncated \o NewLine),
      Converted(<<"W", "P", "A", "*", "0", "3", "*", "a", "b", "1", "2", "*", "a", "a", "b", "b",
                  "c", "c", "d", "d", "e", "e", "f", "f", "*", "1", "1", "2", "2", "3", "3", "4",
                  "4", "5", "5", "6", "6", "*", "4", "d", "7", "9", "5", "3", "5", "3", "4", "9",
                  "4", "4">> \o NewLine \o LinePmkid \o NewLine) }

\* hash lines put together from a kind code and up to MaxHashFields further
\* fields: addresses without and with separators, a hex-coded and a plain
\* network name, and the empty field
MaxHashFields == 4

FieldNet ==
    <<"N", "e", "t", "!">>

HashLines ==
    {Join(<<WPA, kind>> \o fields, "*") :
        kind \in {<<"0", "1">>, <<"0", "2">>, <<"0", "3">>},
        fields \in UNION {[1..n -> { <<"a", "a", "b", "b", "c", "c", "d", "d", "e", "e", "f", "f">>,
                                     <<"1", "1", "-", "2", "2", "-", "3", "3", "-", "4", "4", "-", "5", "5", "-", "6", "6">>,
                                     <<"4", "d", "7", "9", "5", "3", "5", "3", "4", "9", "4", "4">>,
                                     FieldNet, <<>> }] : n \in 0..MaxHashFields}}

\* rows of data/meta/vendor_oui.csv
PrefixAABBCC ==
    <<"A", "A", "B", "B", "C", "C">>
PrefixAABBCCDDE ==
    <<"A", "A", "B", "B", "C", "C", "D", "D", "E">>
Prefix112233 ==
    <<"1", "1", "2", "2", "3", "3">>
VendorAcme ==
    <<"A", "c", "m", "e">>
VendorBlock ==
    <<" ", "B", "l", "o", "c", "k", " ", "C", "o", "r", "p">>

CsvMissing == [exists |-> FALSE, rows |-> <<>>, fault |-> NoFault]
CsvOf(rows) == [exists |-> TRUE, rows |-> rows, fault |-> NoFault]

CsvPlain == CsvOf(<< <<PrefixAABBCC, VendorAcme>>, <<Prefix112233, VendorBlock>> >>)

\* bodies the cracking-results endpoint answers with
PotPlain ==
    <<"A", "A", "B", "B", "C", "C", "D", "D", "E", "E", "F", "F", ":", "1", "1", "2",
      "2", "3", "3", "4", "4", "5", "5", "6", "6", ":", "M", "y", "S", "S", "I", "D",
      ":", "s", "e", "c", "r", "e", "t", "p", "w", "\n">>

Got(text) == [ok |-> TRUE, text |-> text]
Failed == [ok |-> FALSE, text |-> <<>>]

InitialProbe == [fn |-> "none"]

\* what one upload request carries: a rejected request is tried with one
\* converter outcome only, since the converter is not reached
UploadRequests ==
    {<<f, doc, conv>> \in FileNames \X GpsDocs \X ConverterOutcomes :
        \/ f # <<>> /\ ~Raised(parse_gps_json(doc))
        \/ conv = Converted(NewLine)}

\* the uploads of the ingestion runs: three location documents that are
\* accepted, two of them for the same instant, and the rejected ones; a failed
\* conversion, a line that does not parse, and lines for two addresses
IngestRequests ==
    {<<f, doc, conv>> \in UploadRequests :
        conv \in {[returncode |-> 1, out_exists |-> FALSE, text |-> <<>>],
                  Converted(NewLine), Converted(LineTruncated \o NewLine),
                  Converted(LinePmkid \o NewLine),
                  Converted(LineEapolApFirst \o NewLine)}}

(***************************************************************************)
(* Request handlers (routers/upload.py, routers/wpasec.py)                 *)
(***************************************************************************)
Response(op, status, detail, body) ==
    [op |-> op, status |-> status, detail |-> detail, body |-> body]

HASH_META_ERROR == <<"n", "o", "_", "2", "2", "0", "0", "0">>

\* upload_pair once the file name's stem, the location document and the
\* conversion have been worked out: the table, the lookup class state, the
\* response and the call of insert_network_record afterwards
UploadParsed(nets, loaded, m, filename, ssid_from_name, gps_info, conversion, csv, db_error) ==
    LET rejected(r) == [networks |-> nets, ouiLoaded |-> loaded, ouiMap |-> m, resp |-> r,
                        insert |-> Absent]
        hc_meta == IF Raised(conversion) THEN Absent ELSE conversion
        meta_ssid == IF hc_meta # Absent /\ Truthy(hc_meta.ssid)
                     THEN hc_meta.ssid ELSE ssid_from_name
        hash_type == IF hc_meta # Absent THEN hc_meta.type ELSE None
        hash_variant == IF hc_meta # Absent THEN hc_meta.variant ELSE None
        raw_bssid == IF hc_meta # Absent THEN hc_meta.bssid ELSE None
        bssid == norm_bssid(raw_bssid)
        looked == IF Truthy(bssid) THEN lookup_vendor_from_csv(loaded, m, csv, bssid)
                  ELSE <<None, loaded, m, "">>
        rec == [id |-> 0, ssid |-> meta_ssid, bssid |-> bssid, vendor |-> looked[1],
                date |-> StrfDate(gps_info.datetime), time |-> StrfTime(gps_info.datetime),
                hash_type |-> hash_type, hash_variant |-> hash_variant,
                lat |-> gps_info.latitude, lon |-> gps_info.longitude,
                alt |-> gps_info.altitude, accuracy |-> gps_info.accuracy,
                password |-> None]
        ins == insert_network_record(nets, rec, db_error)
    IN  IF filename = <<>>
        THEN rejected(Response("upload", 400, "pcap file missing filename", Absent))
        ELSE IF Raised(gps_info) /\ gps_info.exc = "ValueError"
        THEN rejected(Response("upload", 400, "Invalid gps json", Absent))
        ELSE IF Raised(gps_info)
        THEN rejected(Response("upload", 500, gps_info.exc, Absent))
        ELSE IF Raised(conversion) /\ conversion.exc # "RuntimeError"
        THEN rejected(Response("upload", 500, conversion.exc, Absent))
        ELSE IF looked[4] # ""
        THEN [networks |-> nets, ouiLoaded |-> looked[2], ouiMap |-> looked[3],
              resp |-> Response("upload", 500, looked[4], Absent), insert |-> Absent]
        ELSE [networks |-> ins[1], ouiLoaded |-> looked[2], ouiMap |-> looked[3],
              resp |-> Response("upload", 200, "",
                         [ok |-> TRUE, ssid |-> meta_ssid, record_id |-> ins[2],
                          hash_meta_error |-> IF hc_meta = Absent
                                              THEN HASH_META_ERROR ELSE None]),
              insert |-> [rec |-> rec, returned |-> ins[2], db_error |-> db_error]]

\* upload_pair, from the uploaded files and the converter's outcome
upload_pair(nets, loaded, m, filename, doc, conv, csv, db_error) ==
    UploadParsed(nets, loaded, m, filename, safe_stem(filename), parse_gps_json(doc),
                 convert_pcap_to_hc22000_and_meta(conv), csv, db_error)

\* sync_now behind POST /api/wpasec/sync: the table and the response
\* afterwards (status 0: the process ended without one); cracked_pairs is what
\* download_cracked_potfile returned or raised
sync_now(nets, cracked_pairs, fault) ==
    LET upd == bulk_update_passwords(nets, cracked_pairs.pairs, fault)
    IN  IF Raised(cracked_pairs)
        THEN [networks |-> nets, resp |-> Response("sync", 500, cracked_pairs.exc, Absent)]
        ELSE IF upd[3] # ""
        THEN [networks |-> upd[1],
              resp |-> Response("sync", IF upd[3] = "crash" THEN 0 ELSE 500, upd[3], Absent)]
        ELSE [networks |-> upd[1],
              resp |-> Response("sync", 200, "",
                         [cracked_pairs_total |-> Len(cracked_pairs.pairs),
                          rows_updated |-> upd[2],
                          cracked_pairs |-> cracked_pairs.pairs])]

\* The parsing of a request's files does not depend on the server's state: it
\* is worked out once for each request of the model
ParsedUpload(rq) ==
    [filename |-> rq[1], stem |-> safe_stem(rq[1]), gps_info |-> parse_gps_json(rq[2]),
     conversion |-> convert_pcap_to_hc22000_and_meta(rq[3])]

ParsedIngestRequests == {ParsedUpload(rq) : rq \in IngestRequests}
ParsedUploadsBetweenSyncs == {ParsedUpload(rq) : rq \in {<<f, doc, conv>> \in IngestRequests :
                                                          /\ f # <<>>
                                                          /\ doc \in {GpsFixed, GpsIso, GpsLater}
                                                          /\ conv \in {Converted(NewLine), Converted(LinePmkid \o NewLine),
                                                                       Converted(LineEapolApFirst \o NewLine)}}}

\* likewise the download and parsing of a sync
Downloads == {download_cracked_potfile(rq[1], rq[2], rq[3]) : rq \in {<<k, primary, cookie>> \in BOOLEAN \X { Failed, Got(<<>>), Got(PotPlain),
                                                                       \* a login page
                                                                       Got(<<"<", "H", "T", "M", "L", ">", "l", "o", "g", "i", "n", "<", "/", "H", "T", "M", "L", ">">>),
                                                                       \* a password of one space, and a second address in the hash-line form
                                                                       Got(<<"a", "a", "b", "b", "c", "c", "d", "d", "e", "e", "f", "f", ":", "1", "1", "2", "2", "3", "3", "4", "4", "5", "5", "6", "6", ":", "M", "y", "S", "S", "I", "D", ":", " ", "\n">>
                                                                       \o <<"W", "P", "A", "*", "0", "2", "*", "1", "1", "2", "2", "3", "3", "4", "4", "5", "5", "6", "6", "*", "a", "a", "b", "b", "c", "c", "d", "d", "e", "e", "f", "f", "*", "x", ":", "p", "w", "2", "\n">>) } \X {Failed, Got(PotPlain)} :
                                                                       k \/ (primary = Failed /\ cookie = Failed)}}

(***************************************************************************)
(* The server: uploads and syncs in any order                              *)
(***************************************************************************)
Init ==
    /\ networks = <<>>
    /\ resp = Response("none", 0, "", Absent)
    /\ ouiLoaded = FALSE
    /\ ouiMap = EmptyOuiMap
    /\ probe = InitialProbe

\* the call of insert_network_record an upload made, as the probe
InsertProbe(insert) ==
    IF insert = Absent THEN InitialProbe
    ELSE [fn |-> "insert_network_record", arg |-> insert.rec, result |-> insert.returned,
          db_error |-> insert.db_error]

Upload(requests, csvFiles, dbErrors) ==
    \E rq \in requests, db_error \in dbErrors :
        \E csv \in (IF ouiLoaded THEN {CsvMissing} ELSE csvFiles) :
            \E r \in {UploadParsed(networks, ouiLoaded, ouiMap, rq.filename, rq.stem,
                                   rq.gps_info, rq.conversion, csv, db_error)} :
                /\ Len(r.networks) <= MaxRows
                /\ networks' = r.networks
                /\ ouiLoaded' = r.ouiLoaded
                /\ ouiMap' = r.ouiMap
                /\ resp' = r.resp
                /\ probe' = InsertProbe(r.insert)

SyncNow ==
    \E cracked_pairs \in Downloads :
        \E r \in {sync_now(networks, cracked_pairs, NoFault)} :
            /\ networks' = r.networks
            /\ resp' = r.resp
            /\ probe' = InitialProbe
            /\ UNCHANGED <<ouiLoaded, ouiMap>>

UploadBetweenSyncs == Upload(ParsedUploadsBetweenSyncs, {CsvPlain}, {FALSE})

Next == UploadBetweenSyncs \/ SyncNow

Spec == Init /\ [][Next]_vars

(***************************************************************************)
(* Ingestion alone, with every kind of upload                              *)
(***************************************************************************)
Ingest == Upload(ParsedIngestRequests, {CsvMissing, CsvPlain}, {FALSE})

SpecIngest == Init /\ [][Ingest]_vars

(***************************************************************************)
(* The first upload to a new server                                        *)
(***************************************************************************)
\* a new server about to be sent a request, which the probe keeps
InitFirstUpload ==
    /\ networks = <<>>
    /\ resp = Response("none", 0, "", Absent)
    /\ ouiLoaded = FALSE
    /\ ouiMap = EmptyOuiMap
    /\ \E rq \in UploadRequests \cup
                   {<<f, GpsFixed, conv>> : f \in FileNames \ {<<>>}, conv \in ConverterOutcomes \cup {Converted(line \o NewLine) : line \in HashLines}} :
           probe = [fn |-> "upload_pair",
                    arg |-> [filename |-> rq[1], doc |-> rq[2], conv |-> rq[3]]]

FirstUpload ==
    /\ resp.op = "none"
    /\ \E r \in {upload_pair(networks, ouiLoaded, ouiMap, probe.arg.filename,
                              probe.arg.doc, probe.arg.conv, CsvPlain, FALSE)} :
           /\ networks' = r.networks
           /\ ouiLoaded' = r.ouiLoaded
           /\ ouiMap' = r.ouiMap
           /\ resp' = r.resp
           /\ UNCHANGED probe

SpecFirstUpload == InitFirstUpload /\ [][FirstUpload]_vars

(***************************************************************************)
(* _dedup_cracked called on pair lists                                     *)
(***************************************************************************)
\* the longest pair list
MaxPairs == 3

AddressAA ==
    <<"A", "A", ":", "B", "B", ":", "C", "C", ":", "D", "D", ":", "E", "E", ":", "F", "F">>
AddressAALower ==
    <<"a", "a", ":", "b", "b", ":", "c", "c", ":", "d", "d", ":", "e", "e", ":", "f", "f">>

Password1 == <<"p", "w", "1">>
Password2 == <<"p", "w", "2">>

\* a new process about to call _dedup_cracked on a pair list
InitDedup ==
    /\ networks = <<>>
    /\ resp = Response("none", 0, "", Absent)
    /\ ouiLoaded = FALSE
    /\ ouiMap = EmptyOuiMap
    /\ \E n \in 0..MaxPairs :
           \E pairs \in [1..n -> {Pair(b, p) :
                                   b \in { AddressAA, AddressAALower,
                                   <<"1", "1", ":", "2", "2", ":", "3", "3", ":", "4", "4", ":", "5", "5", ":", "6", "6">>,
                                   <<"A", "A", "B", "B", "C", "C", "D", "D", "E", "E", "F", "F">>,
                                   <<"A", "A", "-", "B", "B", "-", "C", "C", "-", "D", "D", "-", "E", "E", "-", "F", "F">> },
                                   p \in {<<>>, Password1, Password2}}] :
               probe = [fn |-> "_dedup_cracked", arg |-> pairs]

DedupCracked ==
    /\ DOMAIN probe = {"fn", "arg"}
    /\ probe' = [fn |-> probe.fn, arg |-> probe.arg, result |-> _dedup_cracked(probe.arg)]
    /\ UNCHANGED <<networks, resp, ouiLoaded, ouiMap>>

SpecDedup == InitDedup /\ [][DedupCracked]_vars

(***************************************************************************)
(* OUILookup.vendor_for_bssid called on addresses, the table loaded from   *)
(* the vendor file at the first call                                       *)
(***************************************************************************)
\* the most rows of the vendor file
MaxCsvRows == 3

CsvFiles ==
    {CsvMissing} \cup
    {CsvOf(rows) : rows \in UNION {[1..n -> { <<PrefixAABBCC, VendorAcme>>,
                                              << <<"a", "a", "b", "b", "c", "c", "d">>, VendorBlock >>,
                                              << PrefixAABBCCDDE, <<"N", "a", "r", "r", "o", "w">> >>,
                                              << PrefixAABBCCDDE, <<>> >>,
                                              <<Prefix112233, VendorAcme>>,
                                              << <<"A", "A", "B", "B", "C", "C", "D", "D">>, VendorAcme >> }] : n \in 0..MaxCsvRows}}

VendorLookup(csvFiles) ==
    \E csv \in (IF ouiLoaded THEN {CsvMissing} ELSE csvFiles) :
        \E bssid_hex12 \in { <<"A", "A", "B", "B", "C", "C", "D", "D", "E", "E", "F", "F">>,
                             <<"a", "a", "b", "b", "c", "c", "d", "d", "e", "e", "f", "f">>,
                             <<"A", "A", ":", "B", "B", ":", "C", "C", ":", "D", "D", ":", "E">>,
                             <<"A", "A", "B", "B", "C", "C", "D", "D">>,
                             <<"1", "1", "2", "2", "3", "3", "4", "4", "5", "5", "6", "6">>,
                             <<>> } :
            \E st \in {OUILookup_load(ouiLoaded, ouiMap, csv)} :
                /\ ouiLoaded' = st[1]
                /\ ouiMap' = st[2]
                /\ probe' = [fn |-> "vendor_for_bssid", arg |-> bssid_hex12,
                             raised |-> st[3],
                             result |-> IF st[3] # "" THEN Absent
                                        ELSE vendor_for_bssid(st[2], bssid_hex12)]
                /\ UNCHANGED <<networks, resp>>

VendorForBssid == VendorLookup(CsvFiles)

SpecVendor == Init /\ [][VendorForBssid]_vars

(***************************************************************************)
(* Lookups and uploads while data/meta/vendor_oui.csv cannot be loaded     *)
(***************************************************************************)
\* the file missing, a file that cannot be opened, and files with bytes that
\* are not UTF-8 in the first and in the second block the reader decodes
LoadFailures ==
    {CsvMissing} \cup
    {[CsvPlain EXCEPT !.fault = f] :
        f \in {[at |-> 1, exc |-> "PermissionError"],
               [at |-> 1, exc |-> "UnicodeDecodeError"],
               [at |-> 2, exc |-> "UnicodeDecodeError"]}}

SpecLoadFailure ==
    Init /\ [][Upload({rq \in ParsedUploadsBetweenSyncs : ~Raised(rq.conversion)}, LoadFailures, {FALSE})
                 \/ VendorLookup(LoadFailures)]_vars

(***************************************************************************)
(* parse_pot_line called on lines                                          *)
(***************************************************************************)
\* the most colon-separated fields of a line
MaxPotFields == 5

\* lines in the hash-line form: the sentinel in either case, a kind code, up
\* to MaxPotSegs further '*'-separated segments, and the text after the first
\* colon
MaxPotSegs == 3

\* a new process about to call parse_pot_line on the fields joined by colons
InitPot ==
    /\ networks = <<>>
    /\ resp = Response("none", 0, "", Absent)
    /\ ouiLoaded = FALSE
    /\ ouiMap = EmptyOuiMap
    /\ \/ \E n \in 1..MaxPotFields :
              \E fields \in [1..n -> { <<"A", "A", "B", "B", "C", "C", "D", "D", "E", "E", "F", "F">>,
                                       <<"1", "1", "2", "2", "3", "3", "4", "4", "5", "5", "a", "b">>,
                                       <<"M", "y", "S", "S", "I", "D">>,
                                       <<"s", "e", "c", "r", "e", "t", "p", "w">>,
                                       <<"A", "P", "=", "1", "1", "2", "2", "3", "3", "4", "4", "5", "5", "a", "b">>,
                                       <<>> }] :
                  probe = [fn |-> "parse_pot_line", arg |-> Join(fields, ":")]
       \/ \E line \in {Join(<<head, kind>> \o segs, "*") \o <<":">> \o tail :
                        head \in {WPA, <<"w", "p", "a">>},
                        kind \in {<<"0", "1">>, <<"0", "2">>, <<"0", "3">>},
                        segs \in UNION {[1..n -> { PMKID,
                        <<"p", "m", "k", "i", "d">>,
                        <<"a", "a", "b", "b", "c", "c", "d", "d", "e", "e", "f", "f">>,
                        <<"1", "1", "2", "2", "3", "3", "4", "4", "5", "5", "A", "B">>,
                        <<"A", "P", "=", "1", "1", "2", "2", "3", "3", "4", "4", "5", "5", "a", "b">> }] : n \in 0..MaxPotSegs},
                        tail \in { <<"p", "w">>,
                        <<>>,
                        <<"1", "1", "2", "2", "3", "3", "4", "4", "5", "5", "a", "b", ":", "x", ":", "y", ":", "p", "w">>,
                        <<"A", "A", "B", "B", "C", "C", "D", "D", "E", "E", "F", "F", ":", "x", ":", "p", "w">> }} :
              probe = [fn |-> "parse_pot_line", arg |-> line]

ParsePotLine ==
    /\ DOMAIN probe = {"fn", "arg"}
    /\ probe' = [fn |-> probe.fn, arg |-> probe.arg, result |-> parse_pot_line(probe.arg)]
    /\ UNCHANGED <<networks, resp, ouiLoaded, ouiMap>>

SpecPot == InitPot /\ [][ParsePotLine]_vars

(***************************************************************************)
(* Uploads and syncs with storage faults                                   *)
(***************************************************************************)
\* an upload for one of two addresses at one of two instants, whose insert may
\* meet a storage error
UploadWithFault ==
    Upload({rq \in ParsedUploadsBetweenSyncs :
               ~Raised(rq.conversion) /\ rq.gps_info.altitude = Absent},
           {CsvPlain}, BOOLEAN)

\* a sync whose download succeeded, with a pair list of the downloads above or
\* one for two addresses; the UPDATE of item fault.at, if any, does not
\* complete
SyncWithFault ==
    \E cracked_pairs \in {d \in Downloads : ~Raised(d)} \cup
            {[pairs |-> <<Pair(AddressAA, Password1),
                          Pair(<<"1", "1", ":", "2", "2", ":", "3", "3", ":", "4", "4", ":", "5", "5", ":", "6", "6">>, Password2)>>,
              cookie_request |-> FALSE]} :
        \E at \in 0..Len(cracked_pairs.pairs) :
            \E fault \in IF at = 0 THEN {NoFault}
                         ELSE {[at |-> at, exc |-> exc] : exc \in {"sqlite3.Error", "crash"}} :
                \E r \in {sync_now(networks, cracked_pairs, fault)} :
                    /\ networks' = r.networks
                    /\ resp' = r.resp
                    /\ probe' = [fn |-> "bulk_update_passwords",
                                 arg |-> cracked_pairs.pairs, fault |-> fault]
                    /\ UNCHANGED <<ouiLoaded, ouiMap>>

SpecStorage == Init /\ [][UploadWithFault \/ SyncWithFault]_vars

(***************************************************************************)
(* The address normalisers called on the spellings of an address           *)
(***************************************************************************)
\* one spelling: the six pairs of digits with seps[i] after pair i
Spelled(digits, seps) ==
    SubSeq(digits, 1, 2) \o seps[1] \o SubSeq(digits, 3, 4) \o seps[2]
    \o SubSeq(digits, 5, 6) \o seps[3] \o SubSeq(digits, 7, 8) \o seps[4]
    \o SubSeq(digits, 9, 10) \o seps[5] \o SubSeq(digits, 11, 12)

\* a new process about to call one normaliser on twelve hex digits in lower,
\* upper or mixed case, each pair followed by a colon, a dash or nothing
InitAddress ==
    /\ networks = <<>>
    /\ resp = Response("none", 0, "", Absent)
    /\ ouiLoaded = FALSE
    /\ ouiMap = EmptyOuiMap
    /\ \E fn \in {"_hex_to_mac", "convert_pcap_to_hc22000_and_meta", "norm_bssid"} :
           \E digits \in { <<"a", "a", "b", "b", "c", "c", "d", "d", "e", "e", "f", "f">>,
                           <<"A", "A", "B", "B", "C", "C", "D", "D", "E", "E", "F", "F">>,
                           <<"0", "a", "1", "B", "2", "c", "3", "D", "4", "e", "5", "F">> } :
               \E seps \in [1..5 -> {<<>>, <<":">>, <<"-">>}] :
                   probe = [fn |-> fn, arg |-> Spelled(digits, seps)]

HexToMac ==
    /\ DOMAIN probe = {"fn", "arg"}
    /\ probe.fn = "_hex_to_mac"
    /\ probe' = [fn |-> probe.fn, arg |-> probe.arg, result |-> _hex_to_mac(probe.arg)]
    /\ UNCHANGED <<networks, resp, ouiLoaded, ouiMap>>

\* the converter wrote one EAPOL line with the spelling as the access point's
\* address: the "bssid" entry of what convert_pcap_to_hc22000_and_meta returns
ConvertAddress ==
    /\ DOMAIN probe = {"fn", "arg"}
    /\ probe.fn = "convert_pcap_to_hc22000_and_meta"
    /\ LET line == Join(<<WPA, <<"0", "2">>, <<"c", "d", "3", "4">>, probe.arg,
                          <<"1", "1", "2", "2", "3", "3", "4", "4", "5", "5", "6", "6">>,
                          FieldNet>>, "*")
           hc_meta == convert_pcap_to_hc22000_and_meta(Converted(line \o NewLine))
       IN  probe' = [fn |-> probe.fn, arg |-> probe.arg, result |-> hc_meta.bssid]
    /\ UNCHANGED <<networks, resp, ouiLoaded, ouiMap>>

NormBssid ==
    /\ DOMAIN probe = {"fn", "arg"}
    /\ probe.fn = "norm_bssid"
    /\ probe' = [fn |-> probe.fn, arg |-> probe.arg, result |-> norm_bssid(probe.arg)]
    /\ UNCHANGED <<networks, resp, ouiLoaded, ouiMap>>

SpecAddress == InitAddress /\ [][HexToMac \/ ConvertAddress \/ NormBssid]_vars

(***************************************************************************)

(* download_cracked_potfile called on response bodies                      *)
(***************************************************************************)
\* the most lines of a response body
MaxBodyLines == 3

\* a new process about to download: whether the key is set, what the primary
\* request ends with and what the cookie request would
InitDownload ==
    /\ networks = <<>>
    /\ resp = Response("none", 0, "", Absent)
    /\ ouiLoaded = FALSE
    /\ ouiMap = EmptyOuiMap
    /\ \E key_set \in BOOLEAN, cookie \in {Failed, Got(<<>>), Got(PotPlain)} :
           \E primary \in {Failed} \cup
                   {Got(Join(lines, "\n")) :
                       lines \in UNION {[1..n -> { <<"A", "A", "B", "B", "C", "C", "D", "D", "E", "E", "F", "F", ":", "1", "1", "2", "2", "3", "3", "4", "4", "5", "5", "6", "6", ":", "M", "y", "S", "S", "I", "D", ":", "s", "e", "c", "r", "e", "t", "p", "w">>,
                                                   <<"<", "H", "T", "M", "L", ">">>,
                                                   <<"e", "r", "r", "o", "r">>,
                                                   <<>> }] : n \in 0..MaxBodyLines}} :
               probe = [fn |-> "download_cracked_potfile",
                        arg |-> [key_set |-> key_set, primary |-> primary,
                                 cookie |-> cookie]]

Download ==
    /\ DOMAIN probe = {"fn", "arg"}
    /\ probe.fn = "download_cracked_potfile"
    /\ probe' = [fn |-> probe.fn, arg |-> probe.arg,
                 result |-> download_cracked_potfile(probe.arg.key_set, probe.arg.primary,
                                                     probe.arg.cookie)]
    /\ UNCHANGED <<networks, resp, ouiLoaded, ouiMap>>

SpecDownload == InitDownload /\ [][Download]_vars

(***************************************************************************)

(* _http_get_with_retry against a server that fails some attempts          *)
(***************************************************************************)
\* the default of the parameter retries
retries == 3

\* the default of the parameter backoff, 1.5, as numerator and denominator
backoff == <<3, 2>>

\* a delay of backoff seconds that doubles with each attempt
BackoffDelay_Doubling(attempt) ==
    (1000 * backoff[1] * (2 ^ (attempt - 1))) \div backoff[2]

\* backoff ** attempt in thousandths of a second
BackoffDelay(attempt) == (1000 * backoff[1] ^ attempt) \div (backoff[2] ^ attempt)

\* a new process about to call _http_get_with_retry; arg[i] is what attempt i
\* meets: a 2xx response, or the exception of requests.get or raise_for_status
InitRetry ==
    /\ networks = <<>>
    /\ resp = Response("none", 0, "", Absent)
    /\ ouiLoaded = FALSE
    /\ ouiMap = EmptyOuiMap
    /\ \E outcomes \in [1..retries -> {"ok", "ConnectionError", "Timeout", "HTTPError"}] :
           probe = [fn |-> "_http_get_with_retry", arg |-> outcomes, pc |-> "get",
                    attempt |-> 1, gets |-> 0, sleeps |-> <<>>, last_exc |-> "",
                    result |-> Absent]

\* one pass of the try block: the request, and on failure the except branch
\* up to its sleep
RetryGet ==
    /\ probe.fn = "_http_get_with_retry" /\ probe.pc = "get"
    /\ LET outcome == probe.arg[probe.attempt]
       IN  probe' =
               IF outcome = "ok"
               THEN [probe EXCEPT !.gets = @ + 1, !.pc = "done", !.result = [ok |-> TRUE]]
               ELSE IF probe.attempt = retries
               THEN [probe EXCEPT !.gets = @ + 1, !.last_exc = outcome, !.pc = "done",
                                  !.result = Raise("WpaSecSyncError")]
               ELSE [probe EXCEPT !.gets = @ + 1, !.last_exc = outcome, !.pc = "sleep"]
    /\ UNCHANGED <<networks, resp, ouiLoaded, ouiMap>>

\* time.sleep(backoff ** attempt), then the next pass of the loop
RetrySleep ==
    /\ probe.fn = "_http_get_with_retry" /\ probe.pc = "sleep"
    /\ probe' = [probe EXCEPT !.sleeps = Append(@, BackoffDelay(probe.attempt)),
                              !.attempt = @ + 1, !.pc = "get"]
    /\ UNCHANGED <<networks, resp, ouiLoaded, ouiMap>>

SpecRetry == InitRetry /\ [][RetryGet \/ RetrySleep]_vars

(***************************************************************************)

(* OUILookup._load run by several threads: vendor_for_bssid called by each *)
(* thread on the same class attributes, one step per statement that reads *)
(* or writes them                                                         *)
(***************************************************************************)

Threads == {"t1", "t2"}

\* _loaded and _map_by_len as the class defines them, the file at _csv_path,
\* and every thread about to call vendor_for_bssid
InitLoadRace ==
    /\ networks = <<>>
    /\ resp = Response("none", 0, "", Absent)
    /\ ouiLoaded = FALSE
    /\ ouiMap = EmptyOuiMap
    /\ \E csv \in CsvFiles :
           probe = [fn |-> "OUILookup._load", csv |-> csv,
                    arg |-> <<"A", "A", "B", "B", "C", "C", "D", "D", "E", "E", "F", "F">>,
                    pc |-> [t \in Threads |-> "test"],
                    row |-> [t \in Threads |-> 0],
                    result |-> [t \in Threads |-> Absent],
                    loads |-> 0]

\* "if cls._loaded: return", and for a thread that read False "if not p.exists()"
\* and p.open()
LoadTest ==
    \E t \in Threads :
        /\ probe.fn = "OUILookup._load" /\ probe.pc[t] = "test"
        /\ probe' =
               IF ouiLoaded THEN [probe EXCEPT !.pc[t] = "scan"]
               ELSE IF ~probe.csv.exists THEN [probe EXCEPT !.pc[t] = "set"]
               ELSE [probe EXCEPT !.pc[t] = "rows", !.row[t] = 1, !.loads = @ + 1]
        /\ UNCHANGED <<networks, resp, ouiLoaded, ouiMap>>

\* one pass of "for row in reader"
LoadRow ==
    \E t \in Threads :
        /\ probe.fn = "OUILookup._load" /\ probe.pc[t] = "rows"
        /\ probe.row[t] <= Len(probe.csv.rows)
        /\ ouiMap' = LoadRows(<<probe.csv.rows[probe.row[t]]>>, ouiMap)
        /\ probe' = [probe EXCEPT !.row[t] = @ + 1]
        /\ UNCHANGED <<networks, resp, ouiLoaded>>

\* "cls._loaded = True", after the loop or for a missing file
LoadSet ==
    \E t \in Threads :
        /\ probe.fn = "OUILookup._load"
        /\ \/ probe.pc[t] = "set"
           \/ probe.pc[t] = "rows" /\ probe.row[t] > Len(probe.csv.rows)
        /\ ouiLoaded' = TRUE
        /\ probe' = [probe EXCEPT !.pc[t] = "scan"]
        /\ UNCHANGED <<networks, resp, ouiMap>>

\* vendor_for_bssid after its call of _load
LoadLookup ==
    \E t \in Threads :
        /\ probe.fn = "OUILookup._load" /\ probe.pc[t] = "scan"
        /\ probe' = [probe EXCEPT !.pc[t] = "done",
                                  !.result[t] = vendor_for_bssid(ouiMap, probe.arg)]
        /\ UNCHANGED <<networks, resp, ouiLoaded, ouiMap>>

SpecLoadRace == InitLoadRace /\ [][LoadTest \/ LoadRow \/ LoadSet \/ LoadLookup]_vars

(***************************************************************************)

(* The uploader plugin (pwnamap_uploader.py): on_loaded, then the _worker  *)
(* thread's scan passes, with on_unload at any moment. The state is kept  *)
(* in probe; waits and the display are left out, they change none of it   *)
(***************************************************************************)

MaxPasses == 2

\* basenames of the .pcap files that have a .gps.json beside them
Captures == {"a.pcap", "b.pcap"}

\* backoff = min(max_backoff, max(4, backoff * 2))
NextBackoff_Uncapped(cur, max_backoff) ==
    IF cur * 2 > 4 THEN cur * 2 ELSE 4

NextBackoff(cur, max_backoff) ==
    LET grown == IF cur * 2 > 4 THEN cur * 2 ELSE 4
    IN  IF max_backoff < grown THEN max_backoff ELSE grown

\* on_loaded has read the uploaded-list file into _uploaded, and _worker has
\* set backoff = 2 and read max_backoff_sec from the options
InitWorker ==
    /\ networks = <<>>
    /\ resp = Response("none", 0, "", Absent)
    /\ ouiLoaded = FALSE
    /\ ouiMap = EmptyOuiMap
    /\ \E list \in {<<>>, <<"a.pcap">>, <<"old.pcap", "b.pcap">>}, max_backoff \in {1, 5, 1800} :
           probe = [fn |-> "_worker", max_backoff |-> max_backoff, backoff |-> 2,
                    list |-> list, uploaded |-> {list[i] : i \in DOMAIN list},
                    stop |-> FALSE, pc |-> "scan", passes |-> 0,
                    todo |-> {}, base |-> "", attempts |-> 0,
                    calls |-> [b \in Captures |-> 0], last |-> "none"]

\* "while not self._stop.is_set()" and find_complete_pairs
WorkerScan ==
    /\ probe.fn = "_worker" /\ probe.pc = "scan"
    /\ \/ /\ probe.stop
          /\ probe' = [probe EXCEPT !.pc = "stopped"]
       \/ /\ ~probe.stop /\ probe.passes < MaxPasses
          /\ \E pairs \in SUBSET Captures :
                 probe' = [probe EXCEPT !.pc = "next", !.todo = pairs,
                                        !.calls = [b \in Captures |-> 0]]
    /\ UNCHANGED <<networks, resp, ouiLoaded, ouiMap>>

\* "for pcap_path, gps_path in pairs" up to the inner while loop: the pairs of
\* the set in any order, each once
WorkerNextPair ==
    /\ probe.fn = "_worker" /\ probe.pc = "next"
    /\ \/ /\ probe.todo = {}
          /\ probe' = [probe EXCEPT !.pc = IF probe.stop THEN "stopped" ELSE "scan",
                                    !.passes = @ + 1]
       \/ \E b \in probe.todo :
              probe' = IF probe.stop THEN [probe EXCEPT !.pc = "stopped"]
                       ELSE IF b \in probe.uploaded THEN [probe EXCEPT !.todo = @ \ {b}]
                       ELSE [probe EXCEPT !.todo = @ \ {b}, !.base = b, !.attempts = 0,
                                          !.pc = "try"]
    /\ UNCHANGED <<networks, resp, ouiLoaded, ouiMap>>

\* one test of the inner while loop and, when it holds, one call of the nested
\* upload_pair: it returns False before the POST (server unreachable, files
\* not stable, a file unreadable or empty), or the POST is answered 2xx, or
\* answered otherwise, or raises RequestException; append_uploaded_list may
\* raise after a 2xx, which ends the thread
WorkerUploadPair ==
    /\ probe.fn = "_worker" /\ probe.pc = "try"
    /\ \/ /\ ~(probe.attempts < 5 /\ probe.base \notin probe.uploaded /\ ~probe.stop)
          /\ probe' = [probe EXCEPT !.pc = "next"]
       \/ /\ probe.attempts < 5 /\ probe.base \notin probe.uploaded /\ ~probe.stop
          /\ \E outcome \in {"unreachable", "unstable", "unreadable", "2xx", "append_error",
                             "http_error", "RequestException"} :
                 probe' =
                     IF outcome = "2xx"
                     THEN [probe EXCEPT !.list = Append(@, probe.base),
                                        !.uploaded = @ \cup {probe.base},
                                        !.backoff = 2, !.attempts = @ + 1,
                                        !.calls[probe.base] = @ + 1,
                                        !.last = outcome, !.pc = "next"]
                     ELSE IF outcome = "append_error"
                     THEN [probe EXCEPT !.calls[probe.base] = @ + 1, !.last = outcome,
                                        !.pc = "dead"]
                     ELSE IF outcome \in {"http_error", "RequestException"}
                     THEN [probe EXCEPT !.backoff = NextBackoff(@, probe.max_backoff),
                                        !.attempts = @ + 1, !.calls[probe.base] = @ + 1,
                                        !.last = outcome]
                     ELSE [probe EXCEPT !.attempts = @ + 1, !.calls[probe.base] = @ + 1,
                                        !.last = outcome]
    /\ UNCHANGED <<networks, resp, ouiLoaded, ouiMap>>

\* on_unload: self._stop.set()
on_unload ==
    /\ probe.fn = "_worker" /\ ~probe.stop /\ probe.pc \notin {"stopped", "dead"}
    /\ probe' = [probe EXCEPT !.stop = TRUE]
    /\ UNCHANGED <<networks, resp, ouiLoaded, ouiMap>>

SpecWorker ==
    InitWorker /\ [][WorkerScan \/ WorkerNextPair \/ WorkerUploadPair \/ on_unload]_vars

(***************************************************************************)

(* Properties                                                             *)
(***************************************************************************)
\* twelve hex digits
IsHex12(x) == Len(x) = 12 /\ AllIn(x, HexChars)

\* twelve hex digits in upper case, as six colon-joined pairs
CanonicalForm(h) == ColonJoin12(Upper(h))

\* six colon-joined pairs of hex digits
IsCanonicalAddress(x) ==
    LET groups == Split(x, ":")
    IN  Len(groups) = 6 /\ \A g \in 1..6 : Len(groups[g]) = 2 /\ AllIn(groups[g], HexChars)

\* separators stripped and upper-cased
StrippedUpper(a) == Upper(Remove(Remove(a, ":"), "-"))

\* a password that is null, empty or made of spaces
BlankPassword(password) == password = None \/ AllIn(password, {" "})

SameAddressAndInstant(a, b) == a.bssid = b.bssid /\ a.date = b.date /\ a.time = b.time

\* C1 as stated: in every step, a stored record's password changes only in a
\* correlation sync, only when it was null or blank, and only to a password
\* that is not blank.
C1_PasswordOnlyFromBlankToSet ==
    [][\A i \in 1..Len(networks) :
           networks'[i].password # networks[i].password =>
               /\ resp'.op = "sync"
               /\ BlankPassword(networks[i].password)
               /\ ~BlankPassword(networks'[i].password)]_vars

\* C2 as stated: a sync that directly follows a sync, with the same pair list,
\* reports rows_updated = 0 and leaves the stored records as they were.
C2_SecondSyncUpdatesNothing ==
    [][(/\ resp.op = "sync" /\ resp.status = 200
        /\ resp'.op = "sync" /\ resp'.status = 200
        /\ resp'.body.cracked_pairs = resp.body.cracked_pairs) =>
           (resp'.body.rows_updated = 0 /\ networks' = networks)]_vars

\* C3: after every step no two stored records with a non-null address share
\* address, date and time; and an insert of a record whose non-null address,
\* date and time are those of a stored record adds no row, leaves every row as
\* it was, and returns that record's id.
C3_AddressInstantUnique ==
    [][/\ \A i, j \in 1..Len(networks') :
              (i # j /\ networks'[i].bssid # None) =>
                  ~SameAddressAndInstant(networks'[i], networks'[j])
       /\ probe'.fn = "insert_network_record" =>
              LET rec == probe'.arg
                  same == {i \in 1..Len(networks) :
                              SameAddressAndInstant(networks[i], rec)}
              IN  (rec.bssid # None /\ same # {}) =>
                      /\ networks' = networks
                      /\ \E i \in same : probe'.result = networks[i].id]_vars

\* an insert found the address and instant of a record whose password is set,
\* and returned that record's id
C3_Witness ==
    /\ probe.fn = "insert_network_record"
    /\ probe.arg.bssid # None
    /\ probe.arg.password = None
    /\ \E i \in 1..Len(networks) :
           /\ networks[i].id = probe.result
           /\ SameAddressAndInstant(networks[i], probe.arg)
           /\ networks[i].password # None
           /\ networks[i].alt # probe.arg.alt

\* C4: every insert of a record with a null address appends one new record,
\* whatever the table holds, leaves the others as they were, and returns the
\* new record's id, which no other record has.
C4_NullAddressNeverMerged ==
    [][(probe'.fn = "insert_network_record" /\ probe'.arg.bssid = None) =>
           /\ Len(networks') = Len(networks) + 1
           /\ SubSeq(networks', 1, Len(networks)) = networks
           /\ networks'[Len(networks')] = [probe'.arg EXCEPT !.id = probe'.result]
           /\ \A i \in 1..Len(networks) : networks[i].id # probe'.result]_vars

\* two inserts with a null address and the same date and time made two records
C4_Witness ==
    /\ probe.fn = "insert_network_record"
    /\ probe.arg.bssid = None
    /\ \E i, j \in 1..Len(networks) :
           /\ i < j
           /\ networks[i].bssid = None /\ networks[j].bssid = None
           /\ networks[i].date = networks[j].date
           /\ networks[i].time = networks[j].time
           /\ j = probe.result

\* C5: _dedup_cracked returns one pair for each valid address of its input,
\* case ignored, and no other; the password kept for an address is the first
\* non-empty one among its pairs in input order, or the empty one if its pairs
\* have none; a pair whose address is not six colon-joined pairs of hex digits
\* adds nothing.
C5_DedupKeepsFirstNonEmpty ==
    (probe.fn = "_dedup_cracked" /\ "result" \in DOMAIN probe) =>
        LET pairs == probe.arg
            out == probe.result
            valid == {i \in 1..Len(pairs) : IsCanonicalAddress(pairs[i].bssid)}
            set(b) == {i \in valid : Upper(pairs[i].bssid) = b /\ pairs[i].pwd # <<>>}
        IN  /\ \A k, l \in 1..Len(out) : out[k].bssid = out[l].bssid => k = l
            /\ {out[k].bssid : k \in 1..Len(out)} = {Upper(pairs[i].bssid) : i \in valid}
            /\ \A k \in 1..Len(out) :
                   IF set(out[k].bssid) = {} THEN out[k].pwd = <<>>
                   ELSE \E i \in set(out[k].bssid) :
                            /\ \A j \in set(out[k].bssid) : i <= j
                            /\ out[k].pwd = pairs[i].pwd

\* an address met three times, in both cases, with the empty password, then a
\* password, then another
C5_Witness ==
    /\ probe.fn = "_dedup_cracked" /\ "result" \in DOMAIN probe
    /\ probe.arg = <<Pair(AddressAA, <<>>), Pair(AddressAALower, Password1),
                     Pair(AddressAA, Password2)>>
    /\ probe.result = <<Pair(AddressAA, Password1)>>

\* C6: a correlation sync changes exactly the records whose address, with
\* separators stripped and upper-cased, equals that of an applied pair and
\* whose password was null or blank: each gets that pair's password, every
\* other record and field stays as it was, and rows_updated counts the records
\* so updated over all pairs.
C6_UpdatesExactlyMatchingBlank ==
    [][(resp'.op = "sync" /\ resp'.status = 200) =>
           LET pairs == resp'.body.cracked_pairs
               applied == {k \in 1..Len(pairs) :
                              pairs[k].bssid # <<>> /\ pairs[k].pwd # <<>>}
               hits(i) == {k \in applied :
                              /\ networks[i].bssid # None
                              /\ StrippedUpper(networks[i].bssid)
                                     = StrippedUpper(pairs[k].bssid)
                              /\ BlankPassword(networks[i].password)}
           IN  /\ Len(networks') = Len(networks)
               /\ \A i \in 1..Len(networks) :
                      IF hits(i) = {} THEN networks'[i] = networks[i]
                      ELSE \E k \in hits(i) :
                               networks'[i] = [networks[i] EXCEPT !.password = pairs[k].pwd]
               /\ resp'.body.rows_updated =
                      Cardinality({ik \in (1..Len(networks)) \X applied :
                                      ik[2] \in hits(ik[1])})]_vars

\* one pair updated two records of its address, taken at different instants
C6_Witness ==
    /\ resp.op = "sync" /\ resp.status = 200
    /\ Len(resp.body.cracked_pairs) = 1
    /\ resp.body.rows_updated = 2
    /\ Len(networks) = 2
    /\ networks[1].password = resp.body.cracked_pairs[1].pwd
    /\ networks[2].password = resp.body.cracked_pairs[1].pwd
    /\ networks[1].date # networks[2].date

\* C7 as stated: vendor_for_bssid returns the vendor of the loaded table's
\* entry for the address's 9-character prefix if there is one, else that of
\* the 7-character prefix, else that of the 6-character prefix, else nothing;
\* and nothing for an address with fewer than 9 hex characters.  (An entry
\* without a vendor name may come back as nothing.)
C7_LongestPrefixWins ==
    (probe.fn = "vendor_for_bssid") =>
        LET mac == Keep(Upper(probe.arg), HexUpperChars)
            has(L) == SubSeq(mac, 1, L) \in DOMAIN ouiMap[L]
            at(L) == ouiMap[L][SubSeq(mac, 1, L)]
            returned(vendor) ==
                probe.result = vendor \/ (vendor = <<>> /\ probe.result = None)
        IN  IF Len(mac) < 9 THEN probe.result = None
            ELSE IF has(9) THEN returned(at(9))
            ELSE IF has(7) THEN returned(at(7))
            ELSE IF has(6) THEN returned(at(6))
            ELSE probe.result = None

\* the fields of the first sentinel line of a converter's output text, or no
\* fields if it has no such line
FirstSentinelFields(text) ==
    LET wpa == SelectSeq(SplitLines(Strip(text)), LAMBDA ln : StartsWith(ln, Sentinel))
    IN  IF wpa = <<>> THEN <<>> ELSE Split(Strip(wpa[1]), "*")

\* a first upload whose file name and location document are accepted
AcceptedFirstUpload ==
    /\ probe.fn = "upload_pair"
    /\ resp.op = "upload"
    /\ probe.arg.filename # <<>>
    /\ probe.arg.doc \in {GpsFixed, GpsIso, GpsLater}

\* a first upload as above whose converter wrote an EAPOL line of six fields
\* or more as its first sentinel line
EapolFirstUpload ==
    /\ AcceptedFirstUpload
    /\ probe.arg.conv.returncode = 0
    /\ probe.arg.conv.out_exists
    /\ Len(FirstSentinelFields(probe.arg.conv.text)) >= 6
    /\ FirstSentinelFields(probe.arg.conv.text)[2] = <<"0", "2">>

\* the record stored by the upload has the address written in field a and the
\* network name written in field n of the line (counted from 1), the file
\* name's stem standing in for an empty name, and no password
StoredFromFields(a, n) ==
    LET parts == FirstSentinelFields(probe.arg.conv.text)
        hex == Remove(Remove(parts[a], ":"), "-")
        name == _decode_essid(parts[n])
    IN  /\ resp.status = 200
        /\ Len(networks) = 1
        /\ networks[1].bssid = IF IsHex12(hex) THEN CanonicalForm(hex) ELSE None
        /\ networks[1].ssid = IF name # <<>> THEN name ELSE safe_stem(probe.arg.filename)
        /\ networks[1].password = None

ConversionFails(conv) ==
    LET parts == FirstSentinelFields(conv.text)
    IN  \/ conv.returncode # 0
        \/ ~conv.out_exists
        \/ parts = <<>>
        \/ Len(parts) < 6
        \/ parts[2] \notin {<<"0", "1">>, <<"0", "2">>}

\* C9 as stated: whenever the conversion fails in one of these ways the upload
\* stores exactly one record, with null hash family, variant and address, and
\* answers with the acknowledgment that carries the hash-metadata warning.
C9_ConversionFailureIsSoft ==
    (AcceptedFirstUpload /\ ConversionFails(probe.arg.conv)) =>
        /\ resp.status = 200
        /\ Len(networks) = 1
        /\ networks[1].hash_type = None
        /\ networks[1].hash_variant = None
        /\ networks[1].bssid = None
        /\ resp.body.record_id = networks[1].id
        /\ resp.body.hash_meta_error = HASH_META_ERROR

\* a call of parse_pot_line on a line of four fields or more whose first field
\* is twelve hex digits and whose last field is not empty
PlainFormCall ==
    /\ probe.fn = "parse_pot_line" /\ "result" \in DOMAIN probe
    /\ Len(Split(probe.arg, ":")) >= 4
    /\ IsHex12(Split(probe.arg, ":")[1])
    /\ Split(probe.arg, ":")[Len(Split(probe.arg, ":"))] # <<>>

\* the call returned the canonical form of the line's first field and the
\* line's last field
PlainFormResult ==
    LET fields == Split(probe.arg, ":")
    IN  probe.result = Pair(CanonicalForm(fields[1]), fields[Len(fields)])

\* C10 as stated: every line of four fields or more whose first field is
\* twelve hex digits and whose last field is not empty gives the canonical
\* form of the first field and the last field.
C10_PlainFormAlways == PlainFormCall => PlainFormResult

\* C10, amended: such a line gives the canonical form of its first field and
\* its last field unless the short form takes it first, that is unless it has
\* five fields or more and its second field is twelve hex digits too.
C10_PlainFormUnlessShortForm ==
    (/\ PlainFormCall
     /\ ~(Len(Split(probe.arg, ":")) >= 5 /\ IsHex12(Split(probe.arg, ":")[2]))) =>
        PlainFormResult

\* a line of five fields, the second a network name, was read in the plain form
C10_Witness ==
    /\ PlainFormCall
    /\ Len(Split(probe.arg, ":")) = 5
    /\ ~IsHex12(Split(probe.arg, ":")[2])
    /\ probe.result = Pair(AddressAA, Split(probe.arg, ":")[5])

\* parse_pot_line has returned for a line with the sentinel before its first
\* colon and a password after it, which neither the short form, the plain form
\* nor a key=value label can account for
HashLineCall ==
    /\ probe.fn = "parse_pot_line" /\ "result" \in DOMAIN probe
    /\ Contains(probe.arg, <<":">>)
    /\ StartsWith(SplitOnce(probe.arg, ":")[1], Sentinel)
    /\ SplitOnce(probe.arg, ":")[2] # <<>>
    /\ ~Contains(probe.arg, <<"=">>)
    /\ LET fields == Split(probe.arg, ":")
       IN  ~(Len(fields) >= 5 /\ IsHex12(fields[2]) /\ fields[Len(fields)] # <<>>)

\* what the hash-line form is to give: kind 01 with the tag, the address of
\* position 3; kind 02, the address of position 2; nothing otherwise
HashLineExpected ==
    LET hashpart == SplitOnce(probe.arg, ":")[1]
        pwd == SplitOnce(probe.arg, ":")[2]
        seg == Split(hashpart, "*")
    IN  IF seg[2] = <<"0", "1">> /\ Len(seg) >= 4 /\ Upper(seg[3]) = PMKID
           /\ IsHex12(seg[4])
        THEN Pair(CanonicalForm(seg[4]), pwd)
        ELSE IF seg[2] = <<"0", "2">> /\ Len(seg) >= 3 /\ IsHex12(seg[3])
        THEN Pair(CanonicalForm(seg[3]), pwd)
        ELSE Absent

\* C11: a hash-line potfile line of kind 01 gives an address only with the
\* PMKID tag in position 2, and then the one of position 3; a line of kind 02
\* gives the address of position 2; in both cases only when that field is
\* twelve hex digits, and any other shape is not recognised.
C11_HashLineAddressByKind == HashLineCall => probe.result = HashLineExpected

\* C12: each normaliser (_hex_to_mac, the access-point address of
\* convert_pcap_to_hc22000_and_meta, norm_bssid) takes every spelling of twelve
\* hex digits, with colons, dashes or nothing between the pairs and in any
\* case, to the six colon-joined pairs in upper case.
C12_EverySpellingToCanonicalForm ==
    (/\ probe.fn \in {"_hex_to_mac", "convert_pcap_to_hc22000_and_meta", "norm_bssid"}
     /\ "result" \in DOMAIN probe) =>
        probe.result = CanonicalForm(Keep(probe.arg, HexChars))

\* a location document that is not JSON, lacks one of the three keys, has a
\* timestamp in neither form, or has a latitude or longitude that is no number
MalformedDocument(doc) ==
    \/ ~doc.json
    \/ ~({"Updated", "Latitude", "Longitude"} \subseteq DOMAIN doc.data)
    \/ Raised(_parse_updated_datetime(StrOf(doc.data["Updated"])))
    \/ doc.data["Latitude"].t # "num"
    \/ doc.data["Longitude"].t # "num"

\* C13: an upload whose location document is malformed (a latitude or
\* longitude that is null or a list included) makes parse_gps_json fail with
\* ValueError, is answered 400 "Invalid gps json", and stores no record.
C13_MalformedDocumentRejected ==
    (/\ probe.fn = "upload_pair" /\ resp.op = "upload"
     /\ probe.arg.filename # <<>>
     /\ MalformedDocument(probe.arg.doc)) =>
        /\ parse_gps_json(probe.arg.doc) = Raise("ValueError")
        /\ resp.status = 400 /\ resp.detail = "Invalid gps json"
        /\ networks = <<>>

\* C14: a sync whose download fails, at the primary request or at the cookie
\* request, ends in WpaSecSyncError and leaves every record as it was.
C14_DownloadFailureIsSyncError ==
    [][(resp'.op = "sync" /\ resp'.status # 200) =>
           (resp'.detail = "WpaSecSyncError" /\ networks' = networks)]_vars

\* download_cracked_potfile has returned or raised after the primary request
\* had an answer
PrimaryAnswered ==
    /\ probe.fn = "download_cracked_potfile" /\ "result" \in DOMAIN probe
    /\ probe.arg.key_set /\ probe.arg.primary.ok

\* the body holds an opening or closing html tag, in any case
HtmlMarker(text) ==
    \/ Contains(Lower(text), <<"<", "h", "t", "m", "l">>)
    \/ Contains(Lower(text), <<"<", "/", "h", "t", "m", "l", ">">>)

\* no cookie request was made and the pairs of the primary body are the result
PrimaryPairsReturned ==
    probe.result = [pairs |-> _parse_text(probe.arg.primary.text), cookie_request |-> FALSE]

C16_StorageErrorIsCaught ==
    [][/\ (probe'.fn = "insert_network_record" /\ probe'.db_error) =>
              /\ resp'.op = "upload" /\ resp'.status = 200
              /\ resp'.body.record_id = -1
       /\ (probe'.fn = "bulk_update_passwords" /\ probe'.fault.exc = "sqlite3.Error") =>
              /\ resp'.op = "sync" /\ resp'.status = 200]_vars

\* C17: when bulk_update_passwords is interrupted at a pair, by a storage
\* error or by the end of the process, the updates of the pairs before it are
\* in the store: every record that was blank and has the address of such a
\* pair has that pair's password.
C17_UpdatesBeforeInterruptionKept ==
    [][(probe'.fn = "bulk_update_passwords" /\ probe'.fault.at > 0) =>
           LET pairs == probe'.arg
               hits(i) == {k \in 1..(probe'.fault.at - 1) :
                              /\ networks[i].bssid # None
                              /\ StrippedUpper(networks[i].bssid)
                                     = StrippedUpper(pairs[k].bssid)
                              /\ BlankPassword(networks[i].password)}
           IN  /\ Len(networks') = Len(networks)
               /\ \A i \in 1..Len(networks) :
                      IF hits(i) = {} THEN networks'[i] = networks[i]
                      ELSE \E k \in hits(i) :
                               networks'[i] = [networks[i] EXCEPT !.password = pairs[k].pwd]]_vars

\* what each of the four formats makes of the line probed, in the order short
\* form, plain form, hash-line form, key=value fallback; Absent where the
\* format does not recognise the line
FormatResults ==
    LET fields == Split(probe.arg, ":")
        n == Len(fields)
    IN  << IF n >= 5 /\ IsHex12(fields[2]) /\ fields[n] # <<>>
           THEN Pair(CanonicalForm(fields[2]), fields[n]) ELSE Absent,
           IF n >= 4 /\ IsHex12(fields[1]) /\ fields[n] # <<>>
           THEN Pair(CanonicalForm(fields[1]), fields[n]) ELSE Absent,
           HashLineForm(probe.arg),
           FallbackScan(probe.arg, 1) >>

\* C18: parse_pot_line returns the result of the first of the formats short
\* form, plain form, hash-line form, key=value fallback that recognises the
\* line, and nothing when none does; so a line of five fields or more whose
\* field[1] is twelve hex digits gives field[1] and the last field even when
\* field[0] is an address too.
C18_FirstFormatInOrderWins ==
    (probe.fn = "parse_pot_line" /\ "result" \in DOMAIN probe /\ probe.arg # <<>>) =>
        LET results == FormatResults
            recognising == {i \in 1..4 : results[i] # Absent}
        IN  IF recognising = {} THEN probe.result = Absent
            ELSE probe.result =
                     results[CHOOSE i \in recognising : \A j \in recognising : i <= j]

\* a line of five fields whose first two are both addresses was read in the
\* short form
C18_Witness ==
    /\ probe.fn = "parse_pot_line" /\ "result" \in DOMAIN probe
    /\ Len(Split(probe.arg, ":")) = 5
    /\ Split(probe.arg, ":")[1] = <<"A", "A", "B", "B", "C", "C", "D", "D", "E", "E", "F", "F">>
    /\ Split(probe.arg, ":")[2] = <<"1", "1", "2", "2", "3", "3", "4", "4", "5", "5", "a", "b">>
    /\ FormatResults[2] # Absent
    /\ probe.result = Pair(<<"1", "1", ":", "2", "2", ":", "3", "3", ":", "4", "4", ":", "5", "5", ":", "A", "B">>,
                           Split(probe.arg, ":")[5])

\* _http_get_with_retry makes at most `retries` attempts, has slept once
\* between two attempts and not otherwise, and once it has ended: it returned
\* at the first attempt that succeeded, or every attempt failed and it raised
\* WpaSecSyncError
RetryDiscipline ==
    probe.fn = "_http_get_with_retry" =>
        LET succeeded == {i \in 1..retries : probe.arg[i] = "ok"}
        IN  /\ probe.gets <= retries
            /\ Len(probe.sleeps) = (IF probe.pc = "get" THEN probe.gets ELSE probe.gets - 1)
            /\ probe.pc = "done" =>
                   IF succeeded = {}
                   THEN probe.gets = retries /\ probe.result = Raise("WpaSecSyncError")
                   ELSE /\ probe.result = [ok |-> TRUE]
                        /\ probe.gets \in succeeded
                        /\ \A i \in succeeded : probe.gets <= i

\* C19 as stated: at most 3 attempts, return at the first success, a sleep
\* only between a failed attempt and the next, WpaSecSyncError after the last
\* failure, and a delay that doubles from one attempt to the next.
C19_RetryWithDoublingDelay ==
    /\ RetryDiscipline
    /\ probe.fn = "_http_get_with_retry" =>
           \A i \in 1..(Len(probe.sleeps) - 1) : probe.sleeps[i + 1] = 2 * probe.sleeps[i]

\* C19, amended: the same, with a delay of 1.5 s before the second attempt
\* that grows by the factor 1.5 from one attempt to the next.
C19_RetryWithDelayTimesOneAndAHalf ==
    /\ RetryDiscipline
    /\ probe.fn = "_http_get_with_retry" =>
           /\ Len(probe.sleeps) >= 1 => probe.sleeps[1] = 1500
           /\ \A i \in 1..(Len(probe.sleeps) - 1) :
                  2 * probe.sleeps[i + 1] = 3 * probe.sleeps[i]

\* every attempt failed: three requests, two sleeps, and the sync error
C19_Witness ==
    /\ probe.fn = "_http_get_with_retry" /\ probe.pc = "done"
    /\ probe.gets = 3
    /\ probe.sleeps = <<1500, 2250>>
    /\ probe.result = Raise("WpaSecSyncError")

\* C20: the prefix table is loaded at most once per process, also when the
\* first lookups of several threads race, and once a load has completed
\* (_loaded is True) no step of any lookup changes the table
C20_TableLoadedOnceThenReadOnly ==
    /\ [](probe.fn = "OUILookup._load" => probe.loads <= 1)
    /\ [][(probe.fn = "OUILookup._load" /\ ouiLoaded) => ouiMap' = ouiMap]_vars

\* C21: while the prefix table's file cannot be loaded (missing, unreadable
\* or undecodable) no lookup raises, the table stays empty, every lookup
\* returns None, and an upload that triggered the load completes and stores
\* its record without a vendor
C21_LoadFailureSwallowed ==
    /\ ouiMap = EmptyOuiMap
    /\ probe.fn = "vendor_for_bssid" => probe.raised = "" /\ probe.result = None
    /\ resp.op = "upload" => resp.detail \notin {"PermissionError", "UnicodeDecodeError"}
    /\ \A i \in 1..Len(networks) : networks[i].vendor = None

\* C22: every pair parse_pot_line returns has an address of six uppercase
\* hex byte-pairs joined by colons and a non-empty password; the
\* deduplicator's address test accepts it, so the pairs _parse_text hands on
\* to the correlation update are exactly the parser's pair, and none has an
\* empty password
C22_ParsedPairCanonicalAndKept ==
    (probe.fn = "parse_pot_line" /\ "result" \in DOMAIN probe) =>
        LET r == probe.result
            pairs == _parse_text(probe.arg)
        IN  IF r = Absent THEN pairs = <<>>
            ELSE /\ Len(r.bssid) = 17
                 /\ \A i \in 1..17 :
                        IF i % 3 = 0 THEN r.bssid[i] = ":" ELSE r.bssid[i] \in HexUpperChars
                 /\ r.pwd # <<>>
                 /\ _is_valid_bssid(r.bssid)
                 /\ pairs = <<r>>

\* a line whose address is written in lowercase digits has been parsed to a pair
C22_Witness ==
    /\ probe.fn = "parse_pot_line" /\ "result" \in DOMAIN probe
    /\ StartsWith(probe.arg, <<"1", "1", "2", "2", "3", "3", "4", "4", "5", "5", "a", "b", ":">>)
    /\ probe.result # Absent
    /\ probe.result.bssid = <<"1", "1", ":", "2", "2", ":", "3", "3", ":", "4", "4", ":", "5", "5", ":", "A", "B">>
    /\ _parse_text(probe.arg) = <<probe.result>>

\* a step of the worker in which the nested upload_pair was called
WorkerCalled ==
    /\ probe.fn = "_worker" /\ probe.pc = "try"
    /\ probe'.attempts = probe.attempts + 1 \/ probe'.pc = "dead"

====
